---- MODULE Spec2Model ----
(***************************************************************************)
(* A model of the CalDAV client of yinjun1991/caldav-client-go: the sync   *)
(* engine (SyncCalendar), the windowed range query engine                  *)
(* (CalendarQueryRange) and the ICS metadata extractor they rely on.       *)
(*                                                                         *)
(* A text whose bytes the program reads (a calendar payload, a line, a     *)
(* value, an entity tag, a header) is a sequence of bytes, numbers from 0  *)
(* to 255, and the functions of the packages strings, unicode, utf8 and    *)
(* strconv are modelled on such sequences, UTF-8 or not; a byte of a text  *)
(* s is SubSeq(s, i, i). Paths, names, sync tokens, the tags of the        *)
(* options of a call and the messages of errors are TLA+ strings.          *)
(* An instant (Go's time.Time, always UTC here) is a record [d, s, n]: d   *)
(* the number of days since 0001-01-01, s the second of that day, n the    *)
(* nanosecond of that second, so that the zero time.Time is all zeros.    *)
(* A duration (Go's time.Duration, an int64 count of nanoseconds) is a     *)
(* record [d, s, n] of the same shape: it stands for                       *)
(* (d * 86400 + s) * 10^9 + n nanoseconds, with 0 <= s < 86400 and         *)
(* 0 <= n < 10^9, and d < 0 for a negative duration.                       *)
(***************************************************************************)
EXTENDS Integers, Sequences, FiniteSets, TLC

(***************************************************************************)
(* time.Time                                                               *)
(***************************************************************************)
SecondsPerDay == 86400

ZeroTime == [d |-> 0, s |-> 0, n |-> 0]

IsZero(t) == t = ZeroTime

Before(a, b) ==
    \/ a.d < b.d
    \/ (a.d = b.d /\ a.s < b.s)
    \/ (a.d = b.d /\ a.s = b.s /\ a.n < b.n)

After(a, b) == Before(b, a)

NanosPerSecond == 1000000000

\* the duration of days days, secs seconds and nanos nanoseconds, each of
\* them of either sign, with the seconds and the nanoseconds carried
Duration(days, secs, nanos) ==
    LET total == secs + (nanos \div NanosPerSecond)
    IN  [d |-> days + (total \div SecondsPerDay), s |-> total % SecondsPerDay,
         n |-> nanos % NanosPerSecond]

\* k * time.Hour
Hours(k) == Duration(0, k * 3600, 0)

\* x < y for two durations
Less(x, y) ==
    \/ x.d < y.d
    \/ (x.d = y.d /\ x.s < y.s)
    \/ (x.d = y.d /\ x.s = y.s /\ x.n < y.n)

\* the largest and the smallest time.Duration: 2^63 - 1 and -2^63 nanoseconds
MaxDuration == [d |-> 106751, s |-> 85636, n |-> 854775807]

MinDuration == [d |-> -106752, s |-> 763, n |-> 145224192]

\* t.Add(dur)
Add(t, dur) == Duration(t.d + dur.d, t.s + dur.s, t.n + dur.n)

\* a.Sub(b) for two instants without monotonic clock reading: the difference
\* to the nanosecond, or the largest or smallest duration when the
\* difference is beyond it
Sub(a, b) ==
    LET diff == Duration(a.d - b.d, a.s - b.s, a.n - b.n)
    IN  IF Less(MaxDuration, diff) THEN MaxDuration
        ELSE IF Less(diff, MinDuration) THEN MinDuration
        ELSE diff

\* dur / 2, the quotient of the nanoseconds truncated toward zero
Half(dur) ==
    LET halve(x) ==
            LET secs == (x.d % 2) * SecondsPerDay + x.s
            IN  Duration(x.d \div 2, secs \div 2,
                         ((secs % 2) * NanosPerSecond + x.n) \div 2)
        half == halve(Duration(-dur.d, -dur.s, -dur.n))
    IN  IF dur.d >= 0 THEN halve(dur) ELSE Duration(-half.d, -half.s, -half.n)

IsLeap(y) == (y % 4 = 0) /\ ((y % 100 # 0) \/ (y % 400 = 0))

DaysIn(m, y) ==
    IF m = 2 THEN (IF IsLeap(y) THEN 29 ELSE 28)
    ELSE IF m \in {4, 6, 9, 11} THEN 30 ELSE 31

RECURSIVE DaysBeforeMonth(_, _)
DaysBeforeMonth(m, y) ==
    IF m <= 1 THEN 0 ELSE DaysBeforeMonth(m - 1, y) + DaysIn(m - 1, y)

\* time.Date(y, m, d, hh, mm, ss, ns, time.UTC)
Date(y, m, d, hh, mm, ss, ns) ==
    LET py == y - 1
    IN  [d |-> 365 * py + (py \div 4) - (py \div 100) + (py \div 400)
               + DaysBeforeMonth(m, y) + (d - 1),
         s |-> hh * 3600 + mm * 60 + ss,
         n |-> ns]

(***************************************************************************)
(* Texts. A Go string whose bytes the program reads (a calendar payload,   *)
(* a header value) is a sequence of bytes, each in 0..255; Bytes writes    *)
(* one from its ASCII characters.                                          *)
(***************************************************************************)
\* the characters from U+0020 to U+005F
Printable == " !\"#$%&'()*+,-./0123456789:;<=>?@ABCDEFGHIJKLMNOPQRSTUVWXYZ[\\]^_"

\* the characters from U+0061 to U+007E
LowerPrintable == "abcdefghijklmnopqrstuvwxyz{|}~"

\* the byte of each character written in a string of this module
ByteOfChar ==
    LET pairs == {<<SubSeq(Printable, i, i), 31 + i>> : i \in 1..Len(Printable)}
                 \cup {<<SubSeq(LowerPrintable, i, i), 96 + i>> :
                         i \in 1..Len(LowerPrintable)}
                 \cup {<<"\t", 9>>, <<"\n", 10>>, <<"\f", 12>>, <<"\r", 13>>}
    IN  [c \in {p[1] : p \in pairs} |-> (CHOOSE p \in pairs : p[1] = c)[2]]

\* the text whose bytes are the ASCII characters of the string s
Bytes(s) == [i \in 1..Len(s) |-> ByteOfChar[SubSeq(s, i, i)]]

(***************************************************************************)
(* package unicode/utf8                                                    *)
(***************************************************************************)
\* utf8.RuneError, U+FFFD
RuneError == 65533

\* utf8.RuneSelf: the bytes below it are runes of their own
RuneSelf == 128

\* the byte at position i of s is there and lies in lo..hi
ByteIn(s, i, lo, hi) == i <= Len(s) /\ s[i] >= lo /\ s[i] <= hi

\* the number of bytes of the encoding that the byte b begins, 0 when b
\* begins none (utf8's table first)
SizeOfFirst(b) ==
    IF b < 128 THEN 1
    ELSE IF b >= 194 /\ b <= 223 THEN 2
    ELSE IF b >= 224 /\ b <= 239 THEN 3
    ELSE IF b >= 240 /\ b <= 244 THEN 4
    ELSE 0

\* utf8.DecodeRuneInString(s[i:]) for i <= Len(s): [r, size]. An encoding
\* that is cut short, too long for its rune, of a surrogate or above U+10FFFF
\* is RuneError of size 1.
DecodeRune(s, i) ==
    LET b == s[i]
        n == SizeOfFirst(b)
        lo == IF b = 224 THEN 160 ELSE IF b = 240 THEN 144 ELSE 128
        hi == IF b = 237 THEN 159 ELSE IF b = 244 THEN 143 ELSE 191
    IN  IF n = 1 THEN [r |-> b, size |-> 1]
        ELSE IF n = 0 \/ ~ByteIn(s, i + 1, lo, hi) THEN [r |-> RuneError, size |-> 1]
        ELSE IF n = 2 THEN [r |-> (b % 32) * 64 + (s[i + 1] % 64), size |-> 2]
        ELSE IF ~ByteIn(s, i + 2, 128, 191) THEN [r |-> RuneError, size |-> 1]
        ELSE IF n = 3
        THEN [r |-> (b % 16) * 4096 + (s[i + 1] % 64) * 64 + (s[i + 2] % 64),
              size |-> 3]
        ELSE IF ~ByteIn(s, i + 3, 128, 191) THEN [r |-> RuneError, size |-> 1]
        ELSE [r |-> (b % 8) * 262144 + (s[i + 1] % 64) * 4096
                    + (s[i + 2] % 64) * 64 + (s[i + 3] % 64),
              size |-> 4]

\* utf8.RuneStart(b): b is no continuation byte
RuneStart(b) == b < 128 \/ b >= 192

\* utf8.DecodeLastRuneInString(s) for a non-empty s: [r, size]
DecodeLastRune(s) ==
    LET end == Len(s)
        back == {j \in (end - 3)..(end - 1) : j >= 1 /\ RuneStart(s[j])}
        start == CHOOSE j \in back : \A k \in back : k <= j
    IN  IF s[end] < RuneSelf THEN [r |-> s[end], size |-> 1]
        ELSE IF back = {} \/ DecodeRune(s, start).size # end - start + 1
        THEN [r |-> RuneError, size |-> 1]
        ELSE DecodeRune(s, start)

\* utf8.EncodeRune(r) for a valid rune r
EncodeRune(r) ==
    IF r < 128 THEN <<r>>
    ELSE IF r < 2048 THEN <<192 + (r \div 64), 128 + (r % 64)>>
    ELSE IF r < 65536
    THEN <<224 + (r \div 4096), 128 + ((r \div 64) % 64), 128 + (r % 64)>>
    ELSE <<240 + (r \div 262144), 128 + ((r \div 4096) % 64),
           128 + ((r \div 64) % 64), 128 + (r % 64)>>

\* every byte of s is below utf8.RuneSelf
IsASCII(s) == \A i \in 1..Len(s) : s[i] < RuneSelf

\* the positions of s at which a loop "for _, r := range s" reads a rune: a
\* position is skipped when it lies inside the encoding that begins at most
\* three bytes before it
IsRuneAt(s, i) == \A j \in 1..3 : j < i => DecodeRune(s, i - j).size <= j

\* the runes of s in order, as "for _, r := range s" reads them: RuneError
\* for every byte that begins no encoding
Runes(s) ==
    IF IsASCII(s) THEN s
    ELSE SelectSeq([i \in 1..Len(s) |-> IF IsRuneAt(s, i) THEN DecodeRune(s, i).r ELSE -1],
                   LAMBDA r : r >= 0)

\* the encodings of the runes rs[lo..hi] one after the other
RECURSIVE EncodeRunes(_, _, _)
EncodeRunes(rs, lo, hi) ==
    IF lo > hi THEN <<>>
    ELSE IF lo = hi THEN EncodeRune(rs[lo])
    ELSE EncodeRunes(rs, lo, (lo + hi) \div 2) \o EncodeRunes(rs, (lo + hi) \div 2 + 1, hi)

(***************************************************************************)
(* package unicode                                                         *)
(***************************************************************************)
\* unicode.IsSpace(r): the runes with the property White_Space
IsSpace(r) ==
    \/ r >= 9 /\ r <= 13
    \/ r \in {32, 133, 160, 5760, 8232, 8233, 8239, 8287, 12288}
    \/ r >= 8192 /\ r <= 8202

\* unicode.CaseRanges for the upper case, above U+007F: every entry
\* <<lo, hi, stride, delta>> maps the runes lo, lo + stride, ... up to hi to
\* themselves plus delta
UpperRanges ==
    {<<181, 181, 1, 743>>, <<224, 246, 1, -32>>, <<248, 254, 1, -32>>,
     <<255, 255, 1, 121>>, <<257, 303, 2, -1>>, <<305, 305, 1, -232>>,
     <<307, 311, 2, -1>>, <<314, 328, 2, -1>>, <<331, 375, 2, -1>>,
     <<378, 382, 2, -1>>, <<383, 383, 1, -300>>, <<384, 384, 1, 195>>,
     <<387, 389, 2, -1>>, <<392, 392, 1, -1>>, <<396, 396, 1, -1>>,
     <<402, 402, 1, -1>>, <<405, 405, 1, 97>>, <<409, 409, 1, -1>>,
     <<410, 410, 1, 163>>, <<414, 414, 1, 130>>, <<417, 421, 2, -1>>,
     <<424, 424, 1, -1>>, <<429, 429, 1, -1>>, <<432, 432, 1, -1>>,
     <<436, 438, 2, -1>>, <<441, 441, 1, -1>>, <<445, 445, 1, -1>>,
     <<447, 447, 1, 56>>, <<453, 453, 1, -1>>, <<454, 454, 1, -2>>,
     <<456, 456, 1, -1>>, <<457, 457, 1, -2>>, <<459, 459, 1, -1>>,
     <<460, 460, 1, -2>>, <<462, 476, 2, -1>>, <<477, 477, 1, -79>>,
     <<479, 495, 2, -1>>, <<498, 498, 1, -1>>, <<499, 499, 1, -2>>,
     <<501, 501, 1, -1>>, <<505, 543, 2, -1>>, <<547, 563, 2, -1>>,
     <<572, 572, 1, -1>>, <<575, 576, 1, 10815>>, <<578, 578, 1, -1>>,
     <<583, 591, 2, -1>>, <<592, 592, 1, 10783>>, <<593, 593, 1, 10780>>,
     <<594, 594, 1, 10782>>, <<595, 595, 1, -210>>, <<596, 596, 1, -206>>,
     <<598, 599, 1, -205>>, <<601, 601, 1, -202>>, <<603, 603, 1, -203>>,
     <<604, 604, 1, 42319>>, <<608, 608, 1, -205>>, <<609, 609, 1, 42315>>,
     <<611, 611, 1, -207>>, <<613, 613, 1, 42280>>, <<614, 614, 1, 42308>>,
     <<616, 616, 1, -209>>, <<617, 617, 1, -211>>, <<618, 618, 1, 42308>>,
     <<619, 619, 1, 10743>>, <<620, 620, 1, 42305>>, <<623, 623, 1, -211>>,
     <<625, 625, 1, 10749>>, <<626, 626, 1, -213>>, <<629, 629, 1, -214>>,
     <<637, 637, 1, 10727>>, <<640, 640, 1, -218>>, <<642, 642, 1, 42307>>,
     <<643, 643, 1, -218>>, <<647, 647, 1, 42282>>, <<648, 648, 1, -218>>,
     <<649, 649, 1, -69>>, <<650, 651, 1, -217>>, <<652, 652, 1, -71>>,
     <<658, 658, 1, -219>>, <<669, 669, 1, 42261>>, <<670, 670, 1, 42258>>,
     <<837, 837, 1, 84>>, <<881, 883, 2, -1>>, <<887, 887, 1, -1>>,
     <<891, 893, 1, 130>>, <<940, 940, 1, -38>>, <<941, 943, 1, -37>>,
     <<945, 961, 1, -32>>, <<962, 962, 1, -31>>, <<963, 971, 1, -32>>,
     <<972, 972, 1, -64>>, <<973, 974, 1, -63>>, <<976, 976, 1, -62>>,
     <<977, 977, 1, -57>>, <<981, 981, 1, -47>>, <<982, 982, 1, -54>>,
     <<983, 983, 1, -8>>, <<985, 1007, 2, -1>>, <<1008, 1008, 1, -86>>,
     <<1009, 1009, 1, -80>>, <<1010, 1010, 1, 7>>, <<1011, 1011, 1, -116>>,
     <<1013, 1013, 1, -96>>, <<1016, 1016, 1, -1>>, <<1019, 1019, 1, -1>>,
     <<1072, 1103, 1, -32>>, <<1104, 1119, 1, -80>>, <<1121, 1153, 2, -1>>,
     <<1163, 1215, 2, -1>>, <<1218, 1230, 2, -1>>, <<1231, 1231, 1, -15>>,
     <<1233, 1327, 2, -1>>, <<1377, 1414, 1, -48>>, <<4304, 4346, 1, 3008>>,
     <<4349, 4351, 1, 3008>>, <<5112, 5117, 1, -8>>,
     <<7296, 7296, 1, -6254>>, <<7297, 7297, 1, -6253>>,
     <<7298, 7298, 1, -6244>>, <<7299, 7300, 1, -6242>>,
     <<7301, 7301, 1, -6243>>, <<7302, 7302, 1, -6236>>,
     <<7303, 7303, 1, -6181>>, <<7304, 7304, 1, 35266>>,
     <<7545, 7545, 1, 35332>>, <<7549, 7549, 1, 3814>>,
     <<7566, 7566, 1, 35384>>, <<7681, 7829, 2, -1>>, <<7835, 7835, 1, -59>>,
     <<7841, 7935, 2, -1>>, <<7936, 7943, 1, 8>>, <<7952, 7957, 1, 8>>,
     <<7968, 7975, 1, 8>>, <<7984, 7991, 1, 8>>, <<8000, 8005, 1, 8>>,
     <<8017, 8023, 2, 8>>, <<8032, 8039, 1, 8>>, <<8048, 8049, 1, 74>>,
     <<8050, 8053, 1, 86>>, <<8054, 8055, 1, 100>>, <<8056, 8057, 1, 128>>,
     <<8058, 8059, 1, 112>>, <<8060, 8061, 1, 126>>, <<8064, 8071, 1, 8>>,
     <<8080, 8087, 1, 8>>, <<8096, 8103, 1, 8>>, <<8112, 8113, 1, 8>>,
     <<8115, 8115, 1, 9>>, <<8126, 8126, 1, -7205>>, <<8131, 8131, 1, 9>>,
     <<8144, 8145, 1, 8>>, <<8160, 8161, 1, 8>>, <<8165, 8165, 1, 7>>,
     <<8179, 8179, 1, 9>>, <<8526, 8526, 1, -28>>, <<8560, 8575, 1, -16>>,
     <<8580, 8580, 1, -1>>, <<9424, 9449, 1, -26>>, <<11312, 11359, 1, -48>>,
     <<11361, 11361, 1, -1>>, <<11365, 11365, 1, -10795>>,
     <<11366, 11366, 1, -10792>>, <<11368, 11372, 2, -1>>,
     <<11379, 11379, 1, -1>>, <<11382, 11382, 1, -1>>,
     <<11393, 11491, 2, -1>>, <<11500, 11502, 2, -1>>,
     <<11507, 11507, 1, -1>>, <<11520, 11557, 1, -7264>>,
     <<11559, 11559, 1, -7264>>, <<11565, 11565, 1, -7264>>,
     <<42561, 42605, 2, -1>>, <<42625, 42651, 2, -1>>,
     <<42787, 42799, 2, -1>>, <<42803, 42863, 2, -1>>,
     <<42874, 42876, 2, -1>>, <<42879, 42887, 2, -1>>,
     <<42892, 42892, 1, -1>>, <<42897, 42899, 2, -1>>,
     <<42900, 42900, 1, 48>>, <<42903, 42921, 2, -1>>,
     <<42933, 42947, 2, -1>>, <<42952, 42954, 2, -1>>,
     <<42961, 42961, 1, -1>>, <<42967, 42969, 2, -1>>,
     <<42998, 42998, 1, -1>>, <<43859, 43859, 1, -928>>,
     <<43888, 43967, 1, -38864>>, <<65345, 65370, 1, -32>>,
     <<66600, 66639, 1, -40>>, <<66776, 66811, 1, -40>>,
     <<66967, 66977, 1, -39>>, <<66979, 66993, 1, -39>>,
     <<66995, 67001, 1, -39>>, <<67003, 67004, 1, -39>>,
     <<68800, 68850, 1, -64>>, <<71872, 71903, 1, -32>>,
     <<93792, 93823, 1, -32>>, <<125218, 125251, 1, -34>>}

\* the runes of one class of unicode.SimpleFold, above U+007F, mapped to the
\* member of the class that Unicode's simple case folding gives, in entries
\* of the same shape
FoldRanges ==
    {<<181, 181, 1, 775>>, <<192, 214, 1, 32>>, <<216, 222, 1, 32>>,
     <<256, 302, 2, 1>>, <<306, 310, 2, 1>>, <<313, 327, 2, 1>>,
     <<330, 374, 2, 1>>, <<376, 376, 1, -121>>, <<377, 381, 2, 1>>,
     <<383, 383, 1, -268>>, <<385, 385, 1, 210>>, <<386, 388, 2, 1>>,
     <<390, 390, 1, 206>>, <<391, 391, 1, 1>>, <<393, 394, 1, 205>>,
     <<395, 395, 1, 1>>, <<398, 398, 1, 79>>, <<399, 399, 1, 202>>,
     <<400, 400, 1, 203>>, <<401, 401, 1, 1>>, <<403, 403, 1, 205>>,
     <<404, 404, 1, 207>>, <<406, 406, 1, 211>>, <<407, 407, 1, 209>>,
     <<408, 408, 1, 1>>, <<412, 412, 1, 211>>, <<413, 413, 1, 213>>,
     <<415, 415, 1, 214>>, <<416, 420, 2, 1>>, <<422, 422, 1, 218>>,
     <<423, 423, 1, 1>>, <<425, 425, 1, 218>>, <<428, 428, 1, 1>>,
     <<430, 430, 1, 218>>, <<431, 431, 1, 1>>, <<433, 434, 1, 217>>,
     <<435, 437, 2, 1>>, <<439, 439, 1, 219>>, <<440, 440, 1, 1>>,
     <<444, 444, 1, 1>>, <<452, 452, 1, 2>>, <<453, 453, 1, 1>>,
     <<455, 455, 1, 2>>, <<456, 456, 1, 1>>, <<458, 458, 1, 2>>,
     <<459, 475, 2, 1>>, <<478, 494, 2, 1>>, <<497, 497, 1, 2>>,
     <<498, 500, 2, 1>>, <<502, 502, 1, -97>>, <<503, 503, 1, -56>>,
     <<504, 542, 2, 1>>, <<544, 544, 1, -130>>, <<546, 562, 2, 1>>,
     <<570, 570, 1, 10795>>, <<571, 571, 1, 1>>, <<573, 573, 1, -163>>,
     <<574, 574, 1, 10792>>, <<577, 577, 1, 1>>, <<579, 579, 1, -195>>,
     <<580, 580, 1, 69>>, <<581, 581, 1, 71>>, <<582, 590, 2, 1>>,
     <<837, 837, 1, 116>>, <<880, 882, 2, 1>>, <<886, 886, 1, 1>>,
     <<895, 895, 1, 116>>, <<902, 902, 1, 38>>, <<904, 906, 1, 37>>,
     <<908, 908, 1, 64>>, <<910, 911, 1, 63>>, <<913, 929, 1, 32>>,
     <<931, 939, 1, 32>>, <<962, 962, 1, 1>>, <<975, 975, 1, 8>>,
     <<976, 976, 1, -30>>, <<977, 977, 1, -25>>, <<981, 981, 1, -15>>,
     <<982, 982, 1, -22>>, <<984, 1006, 2, 1>>, <<1008, 1008, 1, -54>>,
     <<1009, 1009, 1, -48>>, <<1012, 1012, 1, -60>>, <<1013, 1013, 1, -64>>,
     <<1015, 1015, 1, 1>>, <<1017, 1017, 1, -7>>, <<1018, 1018, 1, 1>>,
     <<1021, 1023, 1, -130>>, <<1024, 1039, 1, 80>>, <<1040, 1071, 1, 32>>,
     <<1120, 1152, 2, 1>>, <<1162, 1214, 2, 1>>, <<1216, 1216, 1, 15>>,
     <<1217, 1229, 2, 1>>, <<1232, 1326, 2, 1>>, <<1329, 1366, 1, 48>>,
     <<4256, 4293, 1, 7264>>, <<4295, 4295, 1, 7264>>,
     <<4301, 4301, 1, 7264>>, <<5112, 5117, 1, -8>>,
     <<7296, 7296, 1, -6222>>, <<7297, 7297, 1, -6221>>,
     <<7298, 7298, 1, -6212>>, <<7299, 7300, 1, -6210>>,
     <<7301, 7301, 1, -6211>>, <<7302, 7302, 1, -6204>>,
     <<7303, 7303, 1, -6180>>, <<7304, 7304, 1, 35267>>,
     <<7312, 7354, 1, -3008>>, <<7357, 7359, 1, -3008>>,
     <<7680, 7828, 2, 1>>, <<7835, 7835, 1, -58>>, <<7838, 7838, 1, -7615>>,
     <<7840, 7934, 2, 1>>, <<7944, 7951, 1, -8>>, <<7960, 7965, 1, -8>>,
     <<7976, 7983, 1, -8>>, <<7992, 7999, 1, -8>>, <<8008, 8013, 1, -8>>,
     <<8025, 8031, 2, -8>>, <<8040, 8047, 1, -8>>, <<8072, 8079, 1, -8>>,
     <<8088, 8095, 1, -8>>, <<8104, 8111, 1, -8>>, <<8120, 8121, 1, -8>>,
     <<8122, 8123, 1, -74>>, <<8124, 8124, 1, -9>>, <<8126, 8126, 1, -7173>>,
     <<8136, 8139, 1, -86>>, <<8140, 8140, 1, -9>>, <<8152, 8153, 1, -8>>,
     <<8154, 8155, 1, -100>>, <<8168, 8169, 1, -8>>, <<8170, 8171, 1, -112>>,
     <<8172, 8172, 1, -7>>, <<8184, 8185, 1, -128>>, <<8186, 8187, 1, -126>>,
     <<8188, 8188, 1, -9>>, <<8486, 8486, 1, -7517>>,
     <<8490, 8490, 1, -8383>>, <<8491, 8491, 1, -8262>>,
     <<8498, 8498, 1, 28>>, <<8544, 8559, 1, 16>>, <<8579, 8579, 1, 1>>,
     <<9398, 9423, 1, 26>>, <<11264, 11311, 1, 48>>, <<11360, 11360, 1, 1>>,
     <<11362, 11362, 1, -10743>>, <<11363, 11363, 1, -3814>>,
     <<11364, 11364, 1, -10727>>, <<11367, 11371, 2, 1>>,
     <<11373, 11373, 1, -10780>>, <<11374, 11374, 1, -10749>>,
     <<11375, 11375, 1, -10783>>, <<11376, 11376, 1, -10782>>,
     <<11378, 11378, 1, 1>>, <<11381, 11381, 1, 1>>,
     <<11390, 11391, 1, -10815>>, <<11392, 11490, 2, 1>>,
     <<11499, 11501, 2, 1>>, <<11506, 11506, 1, 1>>, <<42560, 42604, 2, 1>>,
     <<42624, 42650, 2, 1>>, <<42786, 42798, 2, 1>>, <<42802, 42862, 2, 1>>,
     <<42873, 42875, 2, 1>>, <<42877, 42877, 1, -35332>>,
     <<42878, 42886, 2, 1>>, <<42891, 42891, 1, 1>>,
     <<42893, 42893, 1, -42280>>, <<42896, 42898, 2, 1>>,
     <<42902, 42920, 2, 1>>, <<42922, 42922, 1, -42308>>,
     <<42923, 42923, 1, -42319>>, <<42924, 42924, 1, -42315>>,
     <<42925, 42925, 1, -42305>>, <<42926, 42926, 1, -42308>>,
     <<42928, 42928, 1, -42258>>, <<42929, 42929, 1, -42282>>,
     <<42930, 42930, 1, -42261>>, <<42931, 42931, 1, 928>>,
     <<42932, 42946, 2, 1>>, <<42948, 42948, 1, -48>>,
     <<42949, 42949, 1, -42307>>, <<42950, 42950, 1, -35384>>,
     <<42951, 42953, 2, 1>>, <<42960, 42960, 1, 1>>, <<42966, 42968, 2, 1>>,
     <<42997, 42997, 1, 1>>, <<43888, 43967, 1, -38864>>,
     <<65313, 65338, 1, 32>>, <<66560, 66599, 1, 40>>,
     <<66736, 66771, 1, 40>>, <<66928, 66938, 1, 39>>,
     <<66940, 66954, 1, 39>>, <<66956, 66962, 1, 39>>,
     <<66964, 66965, 1, 39>>, <<68736, 68786, 1, 64>>,
     <<71840, 71871, 1, 32>>, <<93760, 93791, 1, 32>>,
     <<125184, 125217, 1, 34>>}

\* the rune r under the entries of ranges
Shifted(r, ranges) ==
    LET hits == {e \in ranges : e[1] <= r /\ r <= e[2] /\ (r - e[1]) % e[3] = 0}
    IN  IF hits = {} THEN r ELSE r + (CHOOSE e \in hits : TRUE)[4]

\* unicode.ToUpper(r)
UpperChar(r) ==
    IF r < 128 THEN (IF r >= 97 /\ r <= 122 THEN r - 32 ELSE r)
    ELSE Shifted(r, UpperRanges)

\* the member that stands for the rune's class of unicode.SimpleFold: two
\* runes are in one orbit of SimpleFold when they have the same
FoldChar(r) ==
    IF r < 128 THEN (IF r >= 65 /\ r <= 90 THEN r + 32 ELSE r)
    ELSE Shifted(r, FoldRanges)

(***************************************************************************)
(* package strings                                                         *)
(***************************************************************************)
At(s, i) == SubSeq(s, i, i)

From(s, i) == SubSeq(s, i, Len(s))

HasPrefix(s, p) == Len(s) >= Len(p) /\ SubSeq(s, 1, Len(p)) = p

HasSuffix(s, p) == Len(s) >= Len(p) /\ SubSeq(s, Len(s) - Len(p) + 1, Len(s)) = p

\* strings.Index(s, c) for a one-byte c, 1-based; 0 when c does not occur
Index(s, c) ==
    LET hits == {i \in 1..Len(s) : At(s, i) = c}
    IN  IF hits = {} THEN 0 ELSE CHOOSE i \in hits : \A j \in hits : i <= j

\* strings.TrimRight(s, cutset) for a cutset of one-byte texts
RECURSIVE TrimRight(_, _)
TrimRight(s, cutset) ==
    IF Len(s) > 0 /\ At(s, Len(s)) \in cutset
    THEN TrimRight(SubSeq(s, 1, Len(s) - 1), cutset)
    ELSE s

\* strings.TrimLeft(s, cutset) for a cutset of one-byte texts
RECURSIVE TrimLeft(_, _)
TrimLeft(s, cutset) ==
    IF Len(s) > 0 /\ At(s, 1) \in cutset
    THEN TrimLeft(From(s, 2), cutset)
    ELSE s

\* strings.TrimLeftFunc(s, unicode.IsSpace)
RECURSIVE TrimLeftSpace(_)
TrimLeftSpace(s) ==
    IF Len(s) > 0 /\ IsSpace(DecodeRune(s, 1).r)
    THEN TrimLeftSpace(From(s, DecodeRune(s, 1).size + 1))
    ELSE s

\* strings.TrimRightFunc(s, unicode.IsSpace)
RECURSIVE TrimRightSpace(_)
TrimRightSpace(s) ==
    IF Len(s) > 0 /\ IsSpace(DecodeLastRune(s).r)
    THEN TrimRightSpace(SubSeq(s, 1, Len(s) - DecodeLastRune(s).size))
    ELSE s

\* strings.TrimSpace(s): the runes of unicode.IsSpace removed from both ends
TrimSpace(s) == TrimRightSpace(TrimLeftSpace(s))

\* strings.Map(unicode.ToUpper, s)
MapUpper(s) ==
    LET rs == Runes(s)
    IN  EncodeRunes([k \in 1..Len(rs) |-> UpperChar(rs[k])], 1, Len(rs))

\* strings.ToUpper(s): byte by byte when s is ASCII, rune by rune otherwise,
\* a byte that begins no encoding becoming the encoding of U+FFFD
ToUpper(s) ==
    IF IsASCII(s) THEN [i \in 1..Len(s) |-> UpperChar(s[i])] ELSE MapUpper(s)

\* strings.EqualFold(a, b): as many runes in both, each pair in one orbit of
\* unicode.SimpleFold
EqualFold(a, b) ==
    LET ra == Runes(a)
        rb == Runes(b)
    IN  /\ Len(ra) = Len(rb)
        /\ \A k \in 1..Len(ra) : FoldChar(ra[k]) = FoldChar(rb[k])

\* the least of a non-empty set of positions
Least(cuts) == CHOOSE c \in cuts : \A b \in cuts : c <= b

\* the pieces of s from position from on, cut at the positions cuts, c being
\* the least of them
RECURSIVE SplitAt(_, _, _, _)
SplitAt(s, cuts, from, c) ==
    IF cuts = {c} THEN <<SubSeq(s, from, c - 1), SubSeq(s, c + 1, Len(s))>>
    ELSE <<SubSeq(s, from, c - 1)>>
            \o SplitAt(s, cuts \ {c}, c + 1, Least(cuts \ {c}))

\* the pieces of s cut at the positions cuts
SplitCuts(s, cuts) == IF cuts = {} THEN <<s>> ELSE SplitAt(s, cuts, 1, Least(cuts))

\* strings.Split(s, sep) for a one-byte sep
Split(s, sep) == SplitCuts(s, {i \in 1..Len(s) : At(s, i) = sep})

\* strings.Join(parts[i..], sep)
RECURSIVE JoinFrom(_, _, _)
JoinFrom(parts, i, sep) ==
    IF i > Len(parts) THEN <<>>
    ELSE IF i = Len(parts) THEN parts[i]
    ELSE parts[i] \o sep \o JoinFrom(parts, i + 1, sep)

\* strings.ReplaceAll(s, "\r\n", "\n"): every "\n" loses the "\r" before it
ReplaceCRLF(s) ==
    LET parts == Split(s, Bytes("\n"))
    IN  JoinFrom([i \in 1..Len(parts) |->
                    IF i < Len(parts) /\ HasSuffix(parts[i], Bytes("\r"))
                    THEN SubSeq(parts[i], 1, Len(parts[i]) - 1)
                    ELSE parts[i]], 1, Bytes("\n"))

Digits == Bytes("0123456789")

DigitSet == {At(Digits, i) : i \in 1..Len(Digits)}

IsDigit(c) == c \in DigitSet

\* the value of each digit
DigitValues == [c \in DigitSet |-> Index(Digits, c) - 1]

DigitVal(c) == DigitValues[c]

RECURSIVE AllDigits(_)
AllDigits(s) == Len(s) = 0 \/ (IsDigit(At(s, 1)) /\ AllDigits(From(s, 2)))

RECURSIVE NumVal(_)
NumVal(s) ==
    IF Len(s) = 0 THEN 0
    ELSE 10 * NumVal(SubSeq(s, 1, Len(s) - 1)) + DigitVal(At(s, Len(s)))

(***************************************************************************)
(* parseICSTime and Go's time.Parse for the three layouts it tries         *)
(***************************************************************************)
NoTime == [ok |-> FALSE, t |-> ZeroTime]

\* the number of leading digits of s
RECURSIVE DigitRun(_)
DigitRun(s) ==
    IF Len(s) > 0 /\ IsDigit(At(s, 1)) THEN 1 + DigitRun(From(s, 2)) ELSE 0

RECURSIVE Pow10(_)
Pow10(k) == IF k <= 0 THEN 1 ELSE 10 * Pow10(k - 1)

\* time.parseNanoseconds on the digits that follow the '.' or ',' (at most
\* nine of them count)
ParseNanoseconds(digits) ==
    LET used == IF Len(digits) > 9 THEN 9 ELSE Len(digits)
    IN  NumVal(SubSeq(digits, 1, used)) * Pow10(9 - used)

\* the clock of a value whose date (year, month, day) parsed: "T", hour,
\* minute and second, an optional fractional second (accepted although the
\* layout has none), and "Z" when the layout ends in it
ClockParse(value, withZ, year, month, day) ==
    IF Len(value) < 15 \/ At(value, 9) # Bytes("T") \/ ~AllDigits(SubSeq(value, 10, 15))
    THEN NoTime
    ELSE
    LET hour == NumVal(SubSeq(value, 10, 11))
        min  == NumVal(SubSeq(value, 12, 13))
        sec  == NumVal(SubSeq(value, 14, 15))
        rest == From(value, 16)
        frac == Len(rest) >= 2 /\ At(rest, 1) \in {Bytes("."), Bytes(",")} /\ IsDigit(At(rest, 2))
        nd   == IF frac THEN DigitRun(From(rest, 2)) ELSE 0
    IN  IF hour < 24 /\ min < 60 /\ sec < 60
           /\ From(rest, IF frac THEN nd + 2 ELSE 1) = (IF withZ THEN Bytes("Z") ELSE <<>>)
        THEN [ok |-> TRUE,
              t |-> Date(year, month, day, hour, min, sec,
                         IF frac THEN ParseNanoseconds(SubSeq(rest, 2, 1 + nd))
                         ELSE 0)]
        ELSE NoTime

\* the rest of time.Parse once the eight digits of the date are read
DateParse(value, withClock, withZ, year, month, day) ==
    IF ~(month >= 1 /\ month <= 12 /\ day >= 1 /\ day <= DaysIn(month, year))
    THEN NoTime
    ELSE IF withClock THEN ClockParse(value, withZ, year, month, day)
    ELSE IF Len(value) = 8
    THEN [ok |-> TRUE, t |-> Date(year, month, day, 0, 0, 0, 0)]
    ELSE NoTime

\* time.Parse(layout, value) where layout is "20060102" (withClock = FALSE),
\* "20060102T150405" (withClock, ~withZ) or "20060102T150405Z"
TimeParse(value, withClock, withZ) ==
    IF Len(value) < 8 \/ ~AllDigits(SubSeq(value, 1, 8)) THEN NoTime
    ELSE DateParse(value, withClock, withZ, NumVal(SubSeq(value, 1, 4)),
                   NumVal(SubSeq(value, 5, 6)), NumVal(SubSeq(value, 7, 8)))

\* the first of the three attempts that succeeded
FirstOK(utc, floating, dateOnly) ==
    IF utc.ok THEN utc
    ELSE IF floating.ok THEN floating
    ELSE IF dateOnly.ok THEN dateOnly
    ELSE NoTime

\* ParseLayouts dropping a final Z before it tries the layouts
ParseLayoutsDroppingZ(v, z) ==
    LET bare == IF z THEN SubSeq(v, 1, Len(v) - 1) ELSE v
    IN  FirstOK(NoTime, TimeParse(bare, TRUE, FALSE), TimeParse(bare, FALSE, FALSE))

\* parseICSTime after value = strings.TrimSpace(value)
ParseLayouts(v, z) ==
    FirstOK(IF z THEN TimeParse(v, TRUE, TRUE) ELSE NoTime,
            IF z THEN NoTime ELSE TimeParse(v, TRUE, FALSE),
            TimeParse(v, FALSE, FALSE))

ParseTrimmed(v) == ParseLayouts(v, HasSuffix(v, Bytes("Z")))

\* [ok, t]: ok = FALSE is the error return
parseICSTime(value) == ParseTrimmed(TrimSpace(value))

(***************************************************************************)
(* The ICS metadata extractor                                              *)
(***************************************************************************)
extractICSValue(line) ==
    LET idx == Index(line, Bytes(":"))
    IN  IF idx >= 1 /\ idx < Len(line) THEN TrimSpace(From(line, idx + 1)) ELSE <<>>

\* bufio.Scanner with the default split function bufio.ScanLines: the text
\* between newlines, one trailing "\r" dropped from each, and no token for
\* the empty text after a final newline
DropCR(s) == IF HasSuffix(s, Bytes("\r")) THEN SubSeq(s, 1, Len(s) - 1) ELSE s

\* the tokens of the text whose pieces between newlines are parts
ScanTokens(parts) ==
    LET kept == IF parts[Len(parts)] = <<>> THEN SubSeq(parts, 1, Len(parts) - 1)
                ELSE parts
    IN  [i \in 1..Len(kept) |-> DropCR(kept[i])]

\* bufio.MaxScanTokenSize, the size the scanner's buffer grows to
MaxScanTokenSize == 64 * 1024

\* scanner.Err() is bufio.ErrTooLong: the buffer is full and holds no newline,
\* which is when a piece between newlines has MaxScanTokenSize bytes or more
ErrTooLong(parts) == \E i \in 1..Len(parts) : Len(parts[i]) >= MaxScanTokenSize

RECURSIVE UnfoldLoop(_, _, _, _)
UnfoldLoop(toks, i, lines, current) ==
    IF i > Len(toks)
    THEN IF current # <<>> THEN Append(lines, current) ELSE lines
    ELSE
    LET line == TrimRight(toks[i], {Bytes("\r")})
    IN  IF HasPrefix(line, Bytes(" ")) \/ HasPrefix(line, Bytes("\t"))
        THEN UnfoldLoop(toks, i + 1, lines, current \o TrimLeft(line, {Bytes(" "), Bytes("\t")}))
        ELSE UnfoldLoop(toks, i + 1,
                        IF current # <<>> THEN Append(lines, current) ELSE lines,
                        line)

\* unfoldICSLines on the text whose pieces between newlines are parts
Unfolded(parts) ==
    IF ErrTooLong(parts) THEN [ok |-> FALSE, lines |-> <<>>]
    ELSE [ok |-> TRUE, lines |-> UnfoldLoop(ScanTokens(parts), 1, <<>>, <<>>)]

\* [ok, lines]: ok = FALSE is the error return
unfoldICSLines(data) == Unfolded(Split(data, Bytes("\n")))

\* strings.SplitN(part, "=", 2)
SplitKV(part) ==
    LET i == Index(part, Bytes("="))
    IN  IF i = 0 THEN <<part>> ELSE <<SubSeq(part, 1, i - 1), From(part, i + 1)>>

\* the digit strings a and b have the same length and a <= b as numbers
RECURSIVE DigitsLeq(_, _)
DigitsLeq(a, b) ==
    IF Len(a) = 0 THEN TRUE
    ELSE IF At(a, 1) = At(b, 1) THEN DigitsLeq(From(a, 2), From(b, 2))
    ELSE NumVal(At(a, 1)) < NumVal(At(b, 1))

\* s without its leading zeros
RECURSIVE TrimZeros(_)
TrimZeros(s) == IF Len(s) > 0 /\ At(s, 1) = Bytes("0") THEN TrimZeros(From(s, 2)) ELSE s

\* the digits (leading zeros removed) are a magnitude that fits an int of 64
\* bits
InIntRange(digits, negative) ==
    \/ Len(digits) < 19
    \/ /\ Len(digits) = 19
       /\ DigitsLeq(digits, IF negative THEN Bytes("9223372036854775808")
                            ELSE Bytes("9223372036854775807"))

\* strconv.Atoi(val) succeeds: an optional sign, at least one digit, and a
\* value inside the range of int
AtoiOK(val) ==
    LET signed == Len(val) > 0 /\ At(val, 1) \in {Bytes("+"), Bytes("-")}
        body == IF signed THEN From(val, 2) ELSE val
    IN  /\ Len(body) > 0
        /\ AllDigits(body)
        /\ InIntRange(TrimZeros(body), signed /\ At(val, 1) = Bytes("-"))

EmptyMeta ==
    [start |-> ZeroTime, end |-> ZeroTime, recurring |-> FALSE,
     recurrenceEnd |-> ZeroTime, recurrenceOpen |-> FALSE]

\* WithTime with a value that does not parse clearing what was read so far
WithTimeOrNothing(meta, field, p) ==
    IF ~p.ok THEN EmptyMeta
    ELSE IF field = "start" THEN [meta EXCEPT !.start = p.t]
    ELSE IF field = "end" THEN [meta EXCEPT !.end = p.t]
    ELSE [meta EXCEPT !.recurrenceEnd = p.t, !.recurrenceOpen = FALSE]

\* meta with field set to the time p when p parsed
WithTime(meta, field, p) ==
    IF ~p.ok THEN meta
    ELSE IF field = "start" THEN [meta EXCEPT !.start = p.t]
    ELSE IF field = "end" THEN [meta EXCEPT !.end = p.t]
    ELSE [meta EXCEPT !.recurrenceEnd = p.t, !.recurrenceOpen = FALSE]

\* RRulePart taking a COUNT of any value for a bound
RRulePartAnyCount(key, val, meta) ==
    IF key = Bytes("UNTIL") THEN WithTime(meta, "recurrenceEnd", parseICSTime(val))
    ELSE IF key = Bytes("COUNT") THEN [meta EXCEPT !.recurrenceOpen = FALSE]
    ELSE meta

\* one KEY=VALUE part of an RRULE, key upper-cased and both trimmed
RRulePart(key, val, meta) ==
    IF key = Bytes("UNTIL") THEN WithTime(meta, "recurrenceEnd", parseICSTime(val))
    ELSE IF key = Bytes("COUNT") /\ AtoiOK(val) THEN [meta EXCEPT !.recurrenceOpen = FALSE]
    ELSE meta

RRuleKV(kv, meta) ==
    IF Len(kv) # 2 THEN meta
    ELSE RRulePart(ToUpper(TrimSpace(kv[1])), TrimSpace(kv[Len(kv)]), meta)

\* the loop over the ';'-separated parts of an RRULE value
RECURSIVE RRuleParts(_, _, _)
RRuleParts(parts, i, meta) ==
    IF i > Len(parts) THEN meta
    ELSE RRuleParts(parts, i + 1, RRuleKV(SplitKV(parts[i]), meta))

\* a property line inside a VEVENT: upper is the line upper-cased and value
\* its extractICSValue
EventProperty(upper, value, meta) ==
    IF value = <<>> THEN meta
    ELSE IF HasPrefix(upper, Bytes("DTSTART")) THEN WithTime(meta, "start", parseICSTime(value))
    ELSE IF HasPrefix(upper, Bytes("DTEND")) THEN WithTime(meta, "end", parseICSTime(value))
    ELSE RRuleParts(Split(value, Bytes(";")), 1,
                    [meta EXCEPT !.recurring = TRUE, !.recurrenceOpen = TRUE])

\* one iteration of the loop over the unfolded lines, inside a VEVENT
EventLine(line, upper, meta) ==
    IF HasPrefix(upper, Bytes("DTSTART")) \/ HasPrefix(upper, Bytes("DTEND"))
       \/ HasPrefix(upper, Bytes("RRULE"))
    THEN EventProperty(upper, extractICSValue(line), meta)
    ELSE meta

\* EventLoop reading the property lines outside the VEVENT blocks too
RECURSIVE EventLoopEverywhere(_, _, _, _)
EventLoopEverywhere(lines, i, inEvent, meta) ==
    IF i > Len(lines) THEN meta
    ELSE IF EqualFold(lines[i], Bytes("BEGIN:VEVENT"))
    THEN EventLoopEverywhere(lines, i + 1, TRUE, meta)
    ELSE IF EqualFold(lines[i], Bytes("END:VEVENT"))
    THEN EventLoopEverywhere(lines, i + 1, FALSE, meta)
    ELSE EventLoopEverywhere(lines, i + 1, inEvent,
                             EventLine(lines[i], ToUpper(lines[i]), meta))

RECURSIVE EventLoop(_, _, _, _)
EventLoop(lines, i, inEvent, meta) ==
    IF i > Len(lines) THEN meta
    ELSE IF EqualFold(lines[i], Bytes("BEGIN:VEVENT")) THEN EventLoop(lines, i + 1, TRUE, meta)
    ELSE IF EqualFold(lines[i], Bytes("END:VEVENT")) THEN EventLoop(lines, i + 1, FALSE, meta)
    ELSE IF ~inEvent THEN EventLoop(lines, i + 1, inEvent, meta)
    ELSE EventLoop(lines, i + 1, inEvent, EventLine(lines[i], ToUpper(lines[i]), meta))

\* the result policy of extractEventMetadata on the metadata the loop left
MetaResult(meta) ==
    IF meta.recurring THEN [ok |-> TRUE, meta |-> meta]
    ELSE IF IsZero(meta.start) /\ IsZero(meta.end)
    THEN [ok |-> FALSE, meta |-> EmptyMeta]
    ELSE [ok |-> TRUE, meta |-> meta]

\* extractEventMetadata once unfoldICSLines returned u
Extracted(u) ==
    IF ~u.ok THEN [ok |-> FALSE, meta |-> EmptyMeta]
    ELSE MetaResult(EventLoop(u.lines, 1, FALSE, EmptyMeta))

\* [ok, meta]: ok = FALSE is the error return
extractEventMetadata(data) ==
    IF Len(data) = 0 THEN [ok |-> FALSE, meta |-> EmptyMeta]
    ELSE Extracted(unfoldICSLines(ReplaceCRLF(data)))

\* IncludeDecision with DTSTART consulted before DTEND
IncludeDecisionStartFirst(r, modTime, cutoff) ==
    IF r.ok /\ r.meta.recurring
    THEN IsZero(r.meta.recurrenceEnd) \/ ~Before(r.meta.recurrenceEnd, cutoff)
    ELSE IF r.ok /\ ~IsZero(r.meta.start) THEN ~Before(r.meta.start, cutoff)
    ELSE IF r.ok /\ ~IsZero(r.meta.end) THEN ~Before(r.meta.end, cutoff)
    ELSE IF ~IsZero(modTime) THEN ~Before(modTime, cutoff)
    ELSE TRUE

\* IncludeDecision with a recurring event decided by its own DTEND and DTSTART
IncludeDecisionIgnoresRRule(r, modTime, cutoff) ==
    IF r.ok /\ ~IsZero(r.meta.end) THEN ~Before(r.meta.end, cutoff)
    ELSE IF r.ok /\ ~IsZero(r.meta.start) THEN ~Before(r.meta.start, cutoff)
    ELSE IF r.ok /\ r.meta.recurring
    THEN IsZero(r.meta.recurrenceEnd) \/ ~Before(r.meta.recurrenceEnd, cutoff)
    ELSE IF ~IsZero(modTime) THEN ~Before(modTime, cutoff)
    ELSE TRUE

\* IncludeDecision that drops an object of which nothing is known
IncludeDecisionFailClosed(r, modTime, cutoff) ==
    IF r.ok /\ r.meta.recurring
    THEN IsZero(r.meta.recurrenceEnd) \/ ~Before(r.meta.recurrenceEnd, cutoff)
    ELSE IF r.ok /\ ~IsZero(r.meta.end) THEN ~Before(r.meta.end, cutoff)
    ELSE IF r.ok /\ ~IsZero(r.meta.start) THEN ~Before(r.meta.start, cutoff)
    ELSE IF ~IsZero(modTime) THEN ~Before(modTime, cutoff)
    ELSE FALSE

\* IncludeDecision with a rule that a COUNT bounds decided by the event's own
\* DTEND and DTSTART
IncludeDecisionCountBounded(r, modTime, cutoff) ==
    IF r.ok /\ r.meta.recurring
       /\ (r.meta.recurrenceOpen \/ ~IsZero(r.meta.recurrenceEnd))
    THEN IsZero(r.meta.recurrenceEnd) \/ ~Before(r.meta.recurrenceEnd, cutoff)
    ELSE IF r.ok /\ ~IsZero(r.meta.end) THEN ~Before(r.meta.end, cutoff)
    ELSE IF r.ok /\ ~IsZero(r.meta.start) THEN ~Before(r.meta.start, cutoff)
    ELSE IF ~IsZero(modTime) THEN ~Before(modTime, cutoff)
    ELSE TRUE

\* shouldIncludeForStartCutoff once extractEventMetadata returned r
IncludeDecision(r, modTime, cutoff) ==
    IF r.ok /\ r.meta.recurring
    THEN IsZero(r.meta.recurrenceEnd) \/ ~Before(r.meta.recurrenceEnd, cutoff)
    ELSE IF r.ok /\ ~IsZero(r.meta.end) THEN ~Before(r.meta.end, cutoff)
    ELSE IF r.ok /\ ~IsZero(r.meta.start) THEN ~Before(r.meta.start, cutoff)
    ELSE IF ~IsZero(modTime) THEN ~Before(modTime, cutoff)
    ELSE TRUE

\* a pointer or an optional value: Nil, or Some(v)
Nil == <<>>

Some(v) == <<v>>

\* co: a pointer to a CalendarObject, Nil or Some of
\* [Path, ModTime, ContentLength, ETag, Data]
shouldIncludeForStartCutoff(co, cutoff) ==
    IF co = Nil THEN FALSE
    ELSE IncludeDecision(extractEventMetadata(co[1].Data), co[1].ModTime, cutoff)

(***************************************************************************)
(* Collection paths                                                        *)
(***************************************************************************)
\* normalizeCollectionPath stripping one trailing slash only
normalizeCollectionPathOnce(p) ==
    IF p = "" \/ p = "/" THEN p
    ELSE IF HasSuffix(p, "/") THEN SubSeq(p, 1, Len(p) - 1)
    ELSE p

normalizeCollectionPath(p) ==
    IF p = "" \/ p = "/" THEN p ELSE TrimRight(p, {"/"})

sameCollectionPath(a, b) ==
    a = b \/ normalizeCollectionPath(a) = normalizeCollectionPath(b)

(***************************************************************************)
(* The transport: one entry of a multistatus response (internal.Response)  *)
(* is [href, status, props, bad, rtype, maxsize, data, mod, etag, length]:  *)
(* status is the entry's HTTP status, props says that it has a propstat    *)
(* element, bad names the property of it that does not decode ("" when     *)
(* every property decodes), rtype is its DAV:resourcetype ("calendar",     *)
(* "other" for a type that is no calendar, "empty" for the element         *)
(* without a type inside, which is what a plain resource has, or "none"    *)
(* when the property is missing) and data is its calendar-data (empty      *)
(* when the server left it out). An entry without propstat element has no  *)
(* property at all.                                                        *)
(***************************************************************************)
\* an error value is [kind, code]; kind "http" is an *internal.HTTPError
NoError == [kind |-> "none", code |-> 0]

HTTPError(code) == [kind |-> "http", code |-> code]

IsHTTPError(err) == err.kind = "http"

StatusOK == 200

StatusNotFound == 404

StatusInsufficientStorage == 507

\* a failure that is no *internal.HTTPError: the context was cancelled
Cancelled == [kind |-> "context", code |-> 0]

\* the server answers 500: an *internal.HTTPError that is neither 404 nor 507
ServerError == HTTPError(500)

\* a property of a response entry does not decode
DecodeError == [kind |-> "decode", code |-> 0]

\* an element of a request does not encode
EncodeError == [kind |-> "encode", code |-> 0]

\* a run-time panic: the call that meets it does not return
Panic == [kind |-> "panic", code |-> 0]

\* the properties parseCalendarFromResponse decodes after the resource type
CalendarProps ==
    {"calendar-description", "displayname", "max-resource-size",
     "supported-calendar-component-set", "calendar-color", "calendar-timezone",
     "sync-token", "current-user-privilege-set"}

\* the properties decodeCalendarObject decodes
ObjectProps == {"calendar-data", "getlastmodified", "getetag", "getcontentlength"}

\* the two rejections of CalendarQueryRange
ErrNoBounds == [kind |-> "invalid", code |-> 1]

ErrNotBefore == [kind |-> "invalid", code |-> 2]

\* fmt.Errorf(msg + ": %w", err)
Wrapped(msg, err) == [kind |-> msg \o ": " \o err.kind, code |-> err.code]

\* fmt.Errorf(msg)
Errorf(msg) == [kind |-> msg, code |-> 0]

\* resp.Path(): the href of the entry, and its status as an error
Path(resp) ==
    [p |-> resp.href,
     err |-> IF resp.status = StatusOK THEN NoError ELSE HTTPError(resp.status)]

\* resp.Err(): the status of the entry as an error
Err(resp) == IF resp.status = StatusOK THEN NoError ELSE HTTPError(resp.status)

\* [v, err]: v is Nil when no Calendar is returned, else Some(calendar)
\* or err = Panic when resp.PropStats[0] does not exist
parseCalendarFromResponse(resp) ==
    LET pe == Path(resp)
    IN  IF pe.err # NoError THEN [v |-> Nil, err |-> pe.err]
        ELSE IF resp.props /\ resp.bad = "resourcetype"
        THEN [v |-> Nil, err |-> DecodeError]
        ELSE IF resp.props /\ resp.rtype \in {"other", "empty"}
        THEN [v |-> Nil, err |-> NoError]
        ELSE IF resp.props /\ resp.bad \in CalendarProps
        THEN [v |-> Nil, err |-> DecodeError]
        ELSE IF ~resp.props THEN [v |-> Nil, err |-> Panic]
        ELSE [v |-> Some([Path |-> pe.p, MaxResourceSize |-> resp.maxsize]),
              err |-> NoError]

NoObject ==
    [Path |-> "", ModTime |-> ZeroTime, ContentLength |-> 0, ETag |-> <<>>, Data |-> <<>>]

\* [v, err]: v is the object when err = NoError
decodeCalendarObject(resp, path) ==
    IF resp.props /\ resp.bad \in ObjectProps THEN [v |-> NoObject, err |-> DecodeError]
    ELSE IF ~resp.props THEN [v |-> [NoObject EXCEPT !.Path = path], err |-> NoError]
    ELSE [v |-> [Path |-> path, ModTime |-> resp.mod, ContentLength |-> resp.length,
                 ETag |-> resp.etag, Data |-> resp.data],
          err |-> NoError]

\* a CalendarCompRequest
CompRequest(name, allProps, allComps, comps, expand) ==
    [Name |-> name, AllProps |-> allProps, Props |-> <<>>, AllComps |-> allComps,
     Comps |-> comps, Expand |-> expand]

\* the comp element of a request: the names, the two flags and the children
RECURSIVE encodeCalendarCompReq(_)
encodeCalendarCompReq(c) ==
    [Name |-> c.Name, Allprop |-> c.AllProps, Prop |-> c.Props, Allcomp |-> c.AllComps,
     Comp |-> [k \in 1..Len(c.Comps) |-> encodeCalendarCompReq(c.Comps[k])]]

\* the prop element of a REPORT: calendar-data with the comp element and the
\* expand directive of c, getlastmodified and getetag
encodeCalendarReq(c) ==
    [comp |-> encodeCalendarCompReq(c), expand |-> c.Expand,
     props |-> {"getlastmodified", "getetag"}]

\* the request of CalendarQuery: a calendar-query REPORT of depth one on p
\* with the prop element of query.CompRequest and the filter of query
CalendarQueryRequest(p, q) ==
    [kind |-> "calendar-query", path |-> p, depth |-> 1,
     comp |-> encodeCalendarReq(q.CompRequest).comp,
     filter |-> q.Filter,
     expand |-> encodeCalendarReq(q.CompRequest).expand]

\* the position of the last "/" of p, 0 when it has none
LastSlash(p) ==
    LET at == {k \in 1..Len(p) : SubSeq(p, k, k) = "/"}
    IN  IF at = {} THEN 0 ELSE CHOOSE k \in at : \A j \in at : j <= k

\* the path CalendarMultiget sends its REPORT to: p up to its last "/", and
\* p itself when it has none after its first byte
BasePath(p) == IF LastSlash(p) > 1 THEN SubSeq(p, 1, LastSlash(p)) ELSE p

\* the request of CalendarMultiget: a calendar-multiget REPORT of depth one
\* with the paths as hrefs and the prop element of comp
MultigetRequest(paths, comp) ==
    [kind |-> "multiget", path |-> BasePath(paths[1]), depth |-> 1, paths |-> paths,
     comp |-> encodeCalendarReq(comp).comp]

\* the loop of CalendarQuery and of CalendarMultiget over ms.Responses:
\* [resp, err], the objects decoded, or the first error
RECURSIVE DecodeObjects(_, _, _)
DecodeObjects(responses, i, objects) ==
    IF i > Len(responses) THEN [resp |-> Some(objects), err |-> NoError]
    ELSE LET pe == Path(responses[i])
             co == decodeCalendarObject(responses[i], pe.p)
         IN  IF pe.err # NoError THEN [resp |-> Nil, err |-> pe.err]
             ELSE IF co.err # NoError THEN [resp |-> Nil, err |-> co.err]
             ELSE DecodeObjects(responses, i + 1, Append(objects, co.v))

\* what CalendarQuery returns once c.ic.ReportDepth returned reply = [err, ms]
CalendarQueryResult(reply) ==
    IF reply.err # NoError THEN [resp |-> Nil, err |-> reply.err]
    ELSE DecodeObjects(reply.ms.Responses, 1, <<>>)

\* what CalendarMultiget returns once c.ic.ReportDepth returned reply
CalendarMultigetResult(reply) ==
    IF reply.err # NoError THEN [resp |-> Nil, err |-> reply.err]
    ELSE DecodeObjects(reply.ms.Responses, 1, <<>>)

\* the component request SyncCalendar asks every object with
standardCompRequest ==
    CompRequest("VCALENDAR", TRUE, FALSE,
                <<CompRequest("VEVENT", TRUE, FALSE, <<>>, Nil)>>, Nil)

(***************************************************************************)
(* State                                                                   *)
(***************************************************************************)
VARIABLES
    pc,             \* where the running SyncCalendar call is
    path,           \* SyncCalendar's path argument
    query,          \* SyncCalendar's query argument
    startCutoff,    \* the cutoff in force (ZeroTime: none)
    ms,             \* the multistatus answer to the sync-collection REPORT
    idx,            \* the position of the loop over ms.Responses
    ret,            \* the SyncResponse under construction
    pendingPaths,   \* paths deferred to the backfill, in order
    pendingObjects, \* path -> the deferred object
    requests,       \* every request sent so far, in order
    result,         \* what the call returned: [resp, err]
    start,          \* CalendarQueryRange's bounds, in UTC
    end,
    cursor,         \* calendarQueryRangeWindowed's locals
    windowEnd,
    results,
    index,
    stack,          \* the calendarQueryRangeRecursive calls in progress
    failures,       \* the errors the server has answered so far, in order
    fetchedObjects, \* what the backfill CalendarMultiget returned
    answers,        \* what the server has answered so far, per request
    served,         \* the time ranges of the calendar-query requests answered
                    \* with objects so far, in order
    payload,        \* the text given to the extractor
    unfolded,       \* what unfoldICSLines returned for it
    extracted,      \* what extractEventMetadata returned for it
    argument,       \* the arguments of the call, when no other variable has them
    returned        \* what the helper that was called on its own returned

syncVars ==
    <<query, startCutoff, ms, idx, ret, pendingPaths, pendingObjects, fetchedObjects>>

rangeVars ==
    <<start, end, cursor, windowEnd, results, index, stack, failures, answers, served>>

parseVars == <<payload, unfolded, extracted, argument, returned>>

vars == <<pc, path, requests, result, syncVars, rangeVars, parseVars>>

NoResponse == [SyncToken |-> "", Responses |-> <<>>]

EmptyRet == [SyncToken |-> "", Calendar |-> Nil, Updated |-> <<>>, Deleted |-> <<>>]

NoQuery == [SyncToken |-> "", Limit |-> 0, StartTime |-> ZeroTime]

Init ==
    /\ pc = "idle"
    /\ path = ""
    /\ start = ZeroTime
    /\ end = ZeroTime
    /\ cursor = ZeroTime
    /\ windowEnd = ZeroTime
    /\ results = <<>>
    /\ index = <<>>
    /\ stack = <<>>
    /\ failures = <<>>
    /\ answers = <<>>
    /\ served = <<>>
    /\ payload = <<>>
    /\ unfolded = [ok |-> TRUE, lines |-> <<>>]
    /\ extracted = [ok |-> FALSE, meta |-> EmptyMeta]
    /\ argument = <<>>
    /\ returned = <<>>
    /\ fetchedObjects = <<>>
    /\ query = NoQuery
    /\ startCutoff = ZeroTime
    /\ ms = NoResponse
    /\ idx = 0
    /\ ret = EmptyRet
    /\ pendingPaths = <<>>
    /\ pendingObjects = <<>>
    /\ requests = <<>>
    /\ result = [resp |-> Nil, err |-> NoError]

(***************************************************************************)
(* SyncCalendar                                                            *)
(***************************************************************************)
\* StartCutoffOf with the cutoff applied to an incremental sync too
StartCutoffIgnoringToken(q) == q.StartTime

\* the cutoff SyncCalendar applies to a query
StartCutoffOf(q) ==
    IF q.SyncToken = "" /\ ~IsZero(q.StartTime) THEN q.StartTime ELSE ZeroTime

\* the call, up to the sync-collection REPORT it sends
SyncCalendar(p, q) ==
    /\ pc = "idle"
    /\ path' = p
    /\ query' = q
    /\ startCutoff' = StartCutoffOf(q)
    /\ requests' = Append(requests,
                          [kind |-> "sync-collection", path |-> p,
                           token |-> q.SyncToken,
                           limit |-> IF q.Limit > 0 THEN q.Limit ELSE 0])
    /\ pc' = "sync-collection"
    /\ UNCHANGED <<ms, idx, ret, pendingPaths, pendingObjects, fetchedObjects, result>>
    /\ UNCHANGED rangeVars
    /\ UNCHANGED parseVars

\* c.ic.SyncCollection fails: return nil, err
SyncCollectionFails(err) ==
    /\ pc = "sync-collection"
    /\ result' = [resp |-> Nil, err |-> err]
    /\ pc' = "done"
    /\ UNCHANGED <<path, query, startCutoff, ms, idx, ret, pendingPaths,
                   pendingObjects, fetchedObjects, requests>>
    /\ UNCHANGED rangeVars
    /\ UNCHANGED parseVars

\* c.ic.SyncCollection answers m
SyncCollectionAnswers(m) ==
    /\ pc = "sync-collection"
    /\ ms' = m
    /\ ret' = [EmptyRet EXCEPT !.SyncToken = m.SyncToken]
    /\ pendingPaths' = <<>>
    /\ pendingObjects' = <<>>
    /\ idx' = 1
    /\ pc' = "loop"
    /\ UNCHANGED <<path, query, startCutoff, fetchedObjects, requests, result>>
    /\ UNCHANGED rangeVars
    /\ UNCHANGED parseVars

\* The state of the loop over ms.Responses after an iteration:
\* [err, ret, pendingPaths, pendingObjects], err # NoError being return nil, err
LoopState(err, r, pp, po) ==
    [err |-> err, ret |-> r, pendingPaths |-> pp, pendingObjects |-> po]

\* the iteration for an entry that decoded to the object co
ObjectStep(co, r, pp, po, cutoff) ==
    IF ~IsZero(cutoff) /\ Len(co.Data) = 0
    THEN LoopState(NoError, r, Append(pp, co.Path),
                   [x \in (DOMAIN po) \cup {co.Path} |->
                       IF x = co.Path THEN co ELSE po[x]])
    ELSE IF ~IsZero(cutoff) /\ ~shouldIncludeForStartCutoff(Some(co), cutoff)
    THEN LoopState(NoError, r, pp, po)
    ELSE LoopState(NoError, [r EXCEPT !.Updated = Append(@, co)], pp, po)

\* the iteration for the entry of the collection itself, parsed to c
CollectionStep(c, r, pp, po) ==
    IF c.err # NoError THEN LoopState(c.err, r, pp, po)
    ELSE IF c.v # Nil THEN LoopState(NoError, [r EXCEPT !.Calendar = c.v], pp, po)
    ELSE LoopState(NoError, r, pp, po)

\* ResolvedStep with the object decoded under the queried collection path
ResolvedStepQueriedPath(resp, p, d, r, pp, po, cutoff, qpath) ==
    IF sameCollectionPath(p, qpath)
    THEN CollectionStep(parseCalendarFromResponse(resp), r, pp, po)
    ELSE IF d.err # NoError THEN LoopState(d.err, r, pp, po)
    ELSE ObjectStep(decodeCalendarObject(resp, qpath).v, r, pp, po, cutoff)

\* the iteration for an entry whose path resolved to p
ResolvedStep(resp, p, d, r, pp, po, cutoff, qpath) ==
    IF sameCollectionPath(p, qpath)
    THEN CollectionStep(parseCalendarFromResponse(resp), r, pp, po)
    ELSE IF d.err # NoError THEN LoopState(d.err, r, pp, po)
    ELSE ObjectStep(d.v, r, pp, po, cutoff)

\* EntryStep with an entry whose path does not resolve skipped
EntryStepSkipsFailures(resp, pe, r, pp, po, cutoff, qpath) ==
    IF pe.err = HTTPError(StatusNotFound)
    THEN LoopState(NoError, [r EXCEPT !.Deleted = Append(@, pe.p)], pp, po)
    ELSE IF pe.err # NoError THEN LoopState(NoError, r, pp, po)
    ELSE ResolvedStep(resp, pe.p, decodeCalendarObject(resp, pe.p), r, pp, po,
                      cutoff, qpath)

\* EntryStep with the 404 entries left out of Deleted under a cutoff
EntryStepCutoffDropsGone(resp, pe, r, pp, po, cutoff, qpath) ==
    IF pe.err = HTTPError(StatusNotFound)
    THEN IF IsZero(cutoff)
         THEN LoopState(NoError, [r EXCEPT !.Deleted = Append(@, pe.p)], pp, po)
         ELSE LoopState(NoError, r, pp, po)
    ELSE IF pe.err # NoError THEN LoopState(pe.err, r, pp, po)
    ELSE ResolvedStep(resp, pe.p, decodeCalendarObject(resp, pe.p), r, pp, po,
                      cutoff, qpath)

\* one iteration of the loop over ms.Responses, pe being resp.Path()
EntryStep(resp, pe, r, pp, po, cutoff, qpath) ==
    IF pe.err = HTTPError(StatusNotFound)
    THEN LoopState(NoError, [r EXCEPT !.Deleted = Append(@, pe.p)], pp, po)
    ELSE IF pe.err # NoError THEN LoopState(pe.err, r, pp, po)
    ELSE ResolvedStep(resp, pe.p, decodeCalendarObject(resp, pe.p), r, pp, po,
                      cutoff, qpath)

\* the loop state st becomes the state
LoopStep(st) ==
    IF st.err = Panic
    THEN /\ pc' = "panicked"
         /\ UNCHANGED <<result, idx, ret, pendingPaths, pendingObjects>>
    ELSE IF st.err # NoError
    THEN /\ result' = [resp |-> Nil, err |-> st.err]
         /\ pc' = "done"
         /\ UNCHANGED <<idx, ret, pendingPaths, pendingObjects>>
    ELSE /\ ret' = st.ret
         /\ pendingPaths' = st.pendingPaths
         /\ pendingObjects' = st.pendingObjects
         /\ idx' = idx + 1
         /\ UNCHANGED <<pc, result>>

\* one iteration of the loop over ms.Responses
ProcessEntry ==
    /\ pc = "loop"
    /\ idx <= Len(ms.Responses)
    /\ LoopStep(EntryStep(ms.Responses[idx], Path(ms.Responses[idx]), ret,
                          pendingPaths, pendingObjects, startCutoff, path))
    /\ UNCHANGED <<path, query, startCutoff, ms, fetchedObjects, requests>>
    /\ UNCHANGED rangeVars
    /\ UNCHANGED parseVars

\* after the loop, nothing was deferred: return ret, nil
ReturnWithoutBackfill ==
    /\ pc = "loop"
    /\ idx > Len(ms.Responses)
    /\ ~(~IsZero(startCutoff) /\ Len(pendingPaths) > 0)
    /\ result' = [resp |-> Some(ret), err |-> NoError]
    /\ pc' = "done"
    /\ UNCHANGED <<path, query, startCutoff, ms, idx, ret, pendingPaths,
                   pendingObjects, fetchedObjects, requests>>
    /\ UNCHANGED rangeVars
    /\ UNCHANGED parseVars

\* SendMultiget sent as soon as a path is deferred
SendMultigetEarly ==
    /\ pc = "loop"
    /\ ~IsZero(startCutoff) /\ Len(pendingPaths) > 0
    /\ requests' = Append(requests, MultigetRequest(pendingPaths, standardCompRequest))
    /\ pc' = "multiget"
    /\ UNCHANGED <<path, query, startCutoff, ms, idx, ret, pendingPaths,
                   pendingObjects, fetchedObjects, result>>
    /\ UNCHANGED rangeVars
    /\ UNCHANGED parseVars

\* after the loop, c.CalendarMultiget(ctx, pendingPaths, ...) sends its REPORT
SendMultiget ==
    /\ pc = "loop"
    /\ idx > Len(ms.Responses)
    /\ ~IsZero(startCutoff) /\ Len(pendingPaths) > 0
    /\ requests' = Append(requests, MultigetRequest(pendingPaths, standardCompRequest))
    /\ pc' = "multiget"
    /\ UNCHANGED <<path, query, startCutoff, ms, idx, ret, pendingPaths,
                   pendingObjects, fetchedObjects, result>>
    /\ UNCHANGED rangeVars
    /\ UNCHANGED parseVars

\* CalendarMultiget fails: return nil, err
MultigetFails(err) ==
    /\ pc = "multiget"
    /\ result' = [resp |-> Nil, err |-> err]
    /\ pc' = "done"
    /\ UNCHANGED <<path, query, startCutoff, ms, idx, ret, pendingPaths,
                   pendingObjects, fetchedObjects, requests>>
    /\ UNCHANGED rangeVars
    /\ UNCHANGED parseVars

\* fetchedByPath: the last fetched object of each path
FetchedByPath(fetched) ==
    [p \in {fetched[k].Path : k \in 1..Len(fetched)} |->
        fetched[CHOOSE k \in 1..Len(fetched) :
                    /\ fetched[k].Path = p
                    /\ \A j \in (k + 1)..Len(fetched) : fetched[j].Path # p]]

\* Complete taking every field but the path from the fetched object
CompleteOverwritesAll(co, fetched) == [fetched EXCEPT !.Path = co.Path]

\* a deferred object completed from the object fetched for its path
Complete(co, fetched) ==
    [co EXCEPT !.Data = fetched.Data,
               !.ModTime = IF ~IsZero(fetched.ModTime) THEN fetched.ModTime ELSE @,
               !.ContentLength = IF fetched.ContentLength # 0
                                 THEN fetched.ContentLength ELSE @,
               !.ETag = IF fetched.ETag # <<>> THEN fetched.ETag ELSE @]

\* BackfillStep putting the deferred object in front of Updated
BackfillStepInFront(co, cutoff, updated) ==
    IF shouldIncludeForStartCutoff(Some(co), cutoff) THEN <<co>> \o updated ELSE updated

\* one iteration of the loop over pendingPaths: co is the deferred object,
\* completed when its path was fetched
BackfillStep(co, cutoff, updated) ==
    IF shouldIncludeForStartCutoff(Some(co), cutoff) THEN Append(updated, co) ELSE updated

\* Backfill leaving out the deferred objects that were not fetched
RECURSIVE BackfillDropsAbsent(_, _, _, _, _, _)
BackfillDropsAbsent(pp, k, po, byPath, cutoff, updated) ==
    IF k > Len(pp) THEN updated
    ELSE IF pp[k] \in DOMAIN byPath
    THEN BackfillDropsAbsent(pp, k + 1, [po EXCEPT ![pp[k]] = Complete(@, byPath[pp[k]])],
                             byPath, cutoff,
                             BackfillStep(Complete(po[pp[k]], byPath[pp[k]]), cutoff, updated))
    ELSE BackfillDropsAbsent(pp, k + 1, po, byPath, cutoff, updated)

\* the loop over pendingPaths after the multiget: the Updated list it leaves
\* (po[p] is a pointer: the completed object replaces the deferred one)
RECURSIVE Backfill(_, _, _, _, _, _)
Backfill(pp, k, po, byPath, cutoff, updated) ==
    IF k > Len(pp) THEN updated
    ELSE IF pp[k] \in DOMAIN byPath
    THEN Backfill(pp, k + 1, [po EXCEPT ![pp[k]] = Complete(@, byPath[pp[k]])],
                  byPath, cutoff,
                  BackfillStep(Complete(po[pp[k]], byPath[pp[k]]), cutoff, updated))
    ELSE Backfill(pp, k + 1, po, byPath, cutoff,
                  BackfillStep(po[pp[k]], cutoff, updated))

\* CalendarMultiget answers fetched; the deferred objects are completed,
\* filtered and appended, and the call returns ret, nil
MultigetAnswers(fetched) ==
    /\ pc = "multiget"
    /\ fetchedObjects' = fetched
    /\ ret' = [ret EXCEPT !.Updated =
                  Backfill(pendingPaths, 1, pendingObjects, FetchedByPath(fetched),
                           startCutoff, @)]
    /\ result' = [resp |-> Some(ret'), err |-> NoError]
    /\ pc' = "done"
    /\ UNCHANGED <<path, query, startCutoff, ms, idx, pendingPaths,
                   pendingObjects, requests>>
    /\ UNCHANGED rangeVars
    /\ UNCHANGED parseVars

(***************************************************************************)
(* CalendarQueryRange                                                      *)
(***************************************************************************)
defaultCalendarRangeWindow == Hours(90 * 24)

minCalendarRangeWindow == Hours(24)

\* QueryRequest with the expand directive on every request
QueryRequestAlwaysExpands(p, s, e) ==
    CalendarQueryRequest(p,
        [CompRequest |-> CompRequest("VCALENDAR", TRUE, FALSE,
                                     <<CompRequest("VEVENT", TRUE, FALSE, <<>>, Nil)>>,
                                     Some([Start |-> s, End |-> e])),
         Filter |-> [Name |-> "VCALENDAR",
                     Comps |-> <<[Name |-> "VEVENT", Start |-> s, End |-> e]>>]])

\* the query calendarQueryRangeOnce builds for the bounds s, e: a VCALENDAR
\* filter holding one VEVENT filter with the time range, and an expand
\* directive when both bounds are set
RangeQuery(s, e) ==
    [CompRequest |-> CompRequest("VCALENDAR", TRUE, FALSE,
                                 <<CompRequest("VEVENT", TRUE, FALSE, <<>>, Nil)>>,
                                 IF ~IsZero(s) /\ ~IsZero(e)
                                 THEN Some([Start |-> s, End |-> e]) ELSE Nil),
     Filter |-> [Name |-> "VCALENDAR",
                 Comps |-> <<[Name |-> "VEVENT", Start |-> s, End |-> e]>>]]

\* the request c.CalendarQuery sends for it
QueryRequest(p, s, e) == CalendarQueryRequest(p, RangeQuery(s, e))

\* a calendarQueryRangeRecursive call in progress: phase is "once" while its
\* own request is out, "left" and "right" while a half is being resolved
Frame(s, e) == [start |-> s, end |-> e, phase |-> "once", mid |-> ZeroTime,
                left |-> <<>>]

\* MergeChunk that keeps the object a path was first returned with
RECURSIVE MergeChunkKeepsFirst(_, _, _, _)
MergeChunkKeepsFirst(chunk, k, res, ind) ==
    IF k > Len(chunk) THEN [results |-> res, index |-> ind]
    ELSE
    LET obj == chunk[k]
    IN  IF obj.Path \in DOMAIN ind
        THEN MergeChunkKeepsFirst(chunk, k + 1, res, ind)
        ELSE MergeChunkKeepsFirst(chunk, k + 1, Append(res, obj),
                        [x \in (DOMAIN ind) \cup {obj.Path} |->
                            IF x = obj.Path THEN Len(res) + 1 ELSE ind[x]])

\* MergeChunk without the index: every object is appended
RECURSIVE MergeChunkAppends(_, _, _, _)
MergeChunkAppends(chunk, k, res, ind) ==
    IF k > Len(chunk) THEN [results |-> res, index |-> ind]
    ELSE MergeChunkAppends(chunk, k + 1, Append(res, chunk[k]), ind)

\* the merge of one window's chunk into results, deduplicated by path
RECURSIVE MergeChunk(_, _, _, _)
MergeChunk(chunk, k, res, ind) ==
    IF k > Len(chunk) THEN [results |-> res, index |-> ind]
    ELSE
    LET obj == chunk[k]
    IN  IF obj.Path \in DOMAIN ind
        THEN MergeChunk(chunk, k + 1, [res EXCEPT ![ind[obj.Path]] = obj], ind)
        ELSE MergeChunk(chunk, k + 1, Append(res, obj),
                        [x \in (DOMAIN ind) \cup {obj.Path} |->
                            IF x = obj.Path THEN Len(res) + 1 ELSE ind[x]])

\* WindowEndOf without the truncation at the end of the range
WindowEndUnclamped(cur, e) == Add(cur, defaultCalendarRangeWindow)

\* the end of the window that starts at cur
WindowEndOf(cur, e) ==
    LET w == Add(cur, defaultCalendarRangeWindow)
    IN  IF After(w, e) THEN e ELSE w

\* The state of a windowed call between two requests:
\* [stack, cursor, windowEnd, results, index, send, done, result].
\* send is the next request's window, done says that the call returned instead.
Going(stk, cur, we, res, ind, s, e) ==
    [stack |-> stk, cursor |-> cur, windowEnd |-> we, results |-> res,
     index |-> ind, send |-> [start |-> s, end |-> e], done |-> FALSE,
     result |-> [resp |-> Nil, err |-> NoError]]

Finished(stk, cur, we, res, ind, resp, err) ==
    [stack |-> stk, cursor |-> cur, windowEnd |-> we, results |-> res,
     index |-> ind, send |-> [start |-> ZeroTime, end |-> ZeroTime], done |-> TRUE,
     result |-> [resp |-> resp, err |-> err]]

\* calendarQueryRangeWindowed's loop from its test on: the next window is
\* requested or the results are returned
WindowLoop(cur, we, res, ind, e) ==
    IF Before(cur, e)
    THEN LET w == WindowEndOf(cur, e)
         IN  Going(<<Frame(cur, w)>>, cur, w, res, ind, cur, w)
    ELSE Finished(<<>>, cur, we, res, ind, Some(res), NoError)

\* calendarQueryRangeWindowed gets chunk, err for the window cur..we
WindowReturns(objs, err, cur, we, res, ind, e) ==
    IF err # NoError THEN Finished(<<>>, cur, we, res, ind, Nil, err)
    ELSE
    LET m == MergeChunk(objs, 1, res, ind)
    IN  IF ~After(we, cur)
        THEN Finished(<<>>, cur, we, m.results, m.index, Some(m.results), NoError)
        ELSE WindowLoop(we, we, m.results, m.index, e)

\* Returns that never asks for the second half of a bisected window
RECURSIVE ReturnsAfterFirstHalf(_, _, _, _, _, _, _, _)
ReturnsAfterFirstHalf(stk, objs, err, cur, we, res, ind, e) ==
    IF Len(stk) = 0 THEN WindowReturns(objs, err, cur, we, res, ind, e)
    ELSE ReturnsAfterFirstHalf(SubSeq(stk, 1, Len(stk) - 1),
                               IF err # NoError THEN <<>> ELSE objs, err,
                               cur, we, res, ind, e)

\* the innermost calendarQueryRangeRecursive call of stk returns objs, err
\* to its caller
RECURSIVE Returns(_, _, _, _, _, _, _, _)
Returns(stk, objs, err, cur, we, res, ind, e) ==
    IF Len(stk) = 0 THEN WindowReturns(objs, err, cur, we, res, ind, e)
    ELSE
    LET f    == stk[Len(stk)]
        rest == SubSeq(stk, 1, Len(stk) - 1)
    IN  IF err # NoError THEN Returns(rest, <<>>, err, cur, we, res, ind, e)
        ELSE IF f.phase = "left"
        THEN Going(Append(Append(rest, [f EXCEPT !.phase = "right", !.left = objs]),
                          Frame(f.mid, f.end)),
                   cur, we, res, ind, f.mid, f.end)
        ELSE Returns(rest, f.left \o objs, NoError, cur, we, res, ind, e)

\* Bisects that takes any failure of a wide window for a capacity failure
BisectsOnAnyFailure(err, s, e) ==
    /\ Less(minCalendarRangeWindow, Sub(e, s))
    /\ After(Add(s, Half(Sub(e, s))), s)

\* Bisects without the floor of one day
BisectsBelowMinimum(err, s, e) ==
    /\ IsHTTPError(err)
    /\ err.code = StatusInsufficientStorage
    /\ After(Add(s, Half(Sub(e, s))), s)

\* Bisects on any HTTP error
BisectsOnAnyHTTPError(err, s, e) ==
    /\ IsHTTPError(err)
    /\ Less(minCalendarRangeWindow, Sub(e, s))
    /\ After(Add(s, Half(Sub(e, s))), s)

\* calendarQueryRangeRecursive after calendarQueryRangeOnce failed with err:
\* TRUE when the window s..e is bisected
Bisects(err, s, e) ==
    /\ IsHTTPError(err)
    /\ Less(minCalendarRangeWindow, Sub(e, s))
    /\ err.code = StatusInsufficientStorage
    /\ After(Add(s, Half(Sub(e, s))), s)

\* Answered with the second half of a bisected window requested first
AnsweredSecondHalfFirst(stk, objs, err, cur, we, res, ind, e) ==
    LET f    == stk[Len(stk)]
        rest == SubSeq(stk, 1, Len(stk) - 1)
    IN  IF err = NoError THEN Returns(rest, objs, NoError, cur, we, res, ind, e)
        ELSE IF Bisects(err, f.start, f.end)
        THEN LET mid == Add(f.start, Half(Sub(f.end, f.start)))
             IN  Going(Append(Append(rest, [f EXCEPT !.phase = "left", !.mid = mid]),
                              Frame(mid, f.end)),
                       cur, we, res, ind, mid, f.end)
        ELSE Returns(rest, <<>>, err, cur, we, res, ind, e)

\* the innermost call's own request was answered objs, err
Answered(stk, objs, err, cur, we, res, ind, e) ==
    LET f    == stk[Len(stk)]
        rest == SubSeq(stk, 1, Len(stk) - 1)
    IN  IF err = NoError THEN Returns(rest, objs, NoError, cur, we, res, ind, e)
        ELSE IF Bisects(err, f.start, f.end)
        THEN LET mid == Add(f.start, Half(Sub(f.end, f.start)))
             IN  Going(Append(Append(rest, [f EXCEPT !.phase = "left", !.mid = mid]),
                              Frame(f.start, mid)),
                       cur, we, res, ind, f.start, mid)
        ELSE Returns(rest, <<>>, err, cur, we, res, ind, e)

\* the step st of a windowed call on path p becomes the state
Step(st, p) ==
    /\ stack' = st.stack
    /\ cursor' = st.cursor
    /\ windowEnd' = st.windowEnd
    /\ results' = st.results
    /\ index' = st.index
    /\ IF st.done
       THEN /\ pc' = "done"
            /\ result' = st.result
            /\ UNCHANGED requests
       ELSE /\ pc' = "window"
            /\ requests' = Append(requests, QueryRequest(p, st.send.start, st.send.end))
            /\ UNCHANGED result

\* RangeError with equal bounds let through
RangeErrorAllowsEqual(s, e) ==
    IF IsZero(s) /\ IsZero(e) THEN ErrNoBounds
    ELSE IF ~IsZero(s) /\ ~IsZero(e) /\ After(s, e) THEN ErrNotBefore
    ELSE NoError

\* the validation of the bounds: the error the call is rejected with, or
\* NoError
RangeError(s, e) ==
    IF IsZero(s) /\ IsZero(e) THEN ErrNoBounds
    ELSE IF ~IsZero(s) /\ ~IsZero(e) /\ ~Before(s, e) THEN ErrNotBefore
    ELSE NoError

\* CalendarQueryRange that goes through the windows whenever start is set
CalendarQueryRangeWindowsOpenEnd(p, s, e) ==
    /\ pc = "idle"
    /\ path' = p
    /\ start' = s
    /\ end' = e
    /\ IF RangeError(s, e) # NoError
       THEN /\ result' = [resp |-> Nil, err |-> RangeError(s, e)]
            /\ pc' = "done"
            /\ UNCHANGED <<requests, cursor, windowEnd, results, index, stack>>
       ELSE IF ~IsZero(s)
       THEN Step(WindowLoop(s, ZeroTime, <<>>, <<>>, e), p)
       ELSE /\ requests' = Append(requests, QueryRequest(p, s, e))
            /\ pc' = "once"
            /\ UNCHANGED <<result, cursor, windowEnd, results, index, stack>>
    /\ UNCHANGED <<failures, answers, served>>
    /\ UNCHANGED syncVars
    /\ UNCHANGED parseVars

\* the call, up to its first request or its rejection
CalendarQueryRange(p, s, e) ==
    /\ pc = "idle"
    /\ path' = p
    /\ start' = s
    /\ end' = e
    /\ IF RangeError(s, e) # NoError
       THEN /\ result' = [resp |-> Nil, err |-> RangeError(s, e)]
            /\ pc' = "done"
            /\ UNCHANGED <<requests, cursor, windowEnd, results, index, stack>>
       ELSE IF ~IsZero(s) /\ ~IsZero(e)
       THEN Step(WindowLoop(s, ZeroTime, <<>>, <<>>, e), p)
       ELSE /\ requests' = Append(requests, QueryRequest(p, s, e))
            /\ pc' = "once"
            /\ UNCHANGED <<result, cursor, windowEnd, results, index, stack>>
    /\ UNCHANGED <<failures, answers, served>>
    /\ UNCHANGED syncVars
    /\ UNCHANGED parseVars

\* the time range of the calendar-query request r
RangeOf(r) == [start |-> r.filter.Comps[1].Start, end |-> r.filter.Comps[1].End]

\* the single request of a call with one open bound is answered
OnceAnswers(objs) ==
    /\ pc = "once"
    /\ result' = [resp |-> Some(objs), err |-> NoError]
    /\ pc' = "done"
    /\ answers' = Append(answers, objs)
    /\ served' = Append(served, RangeOf(requests[Len(requests)]))
    /\ UNCHANGED <<path, requests, start, end, cursor, windowEnd, results, index,
                   stack, failures, syncVars, parseVars>>

OnceFails(err) ==
    /\ pc = "once"
    /\ result' = [resp |-> Nil, err |-> err]
    /\ pc' = "done"
    /\ failures' = Append(failures, err)
    /\ UNCHANGED <<path, requests, start, end, cursor, windowEnd, results, index,
                   stack, answers, served, syncVars, parseVars>>

\* the request of the innermost window is answered with objs
WindowAnswers(objs) ==
    /\ pc = "window"
    /\ Step(Answered(stack, objs, NoError, cursor, windowEnd, results, index, end), path)
    /\ answers' = Append(answers, objs)
    /\ served' = Append(served, RangeOf(requests[Len(requests)]))
    /\ UNCHANGED <<path, start, end, failures, syncVars, parseVars>>

\* the request of the innermost window fails with err
WindowFails(err) ==
    /\ pc = "window"
    /\ Step(Answered(stack, <<>>, err, cursor, windowEnd, results, index, end), path)
    /\ failures' = Append(failures, err)
    /\ UNCHANGED <<path, start, end, answers, served, syncVars, parseVars>>

(***************************************************************************)
(* Inputs: the calls the caller makes and the answers the server gives     *)
(***************************************************************************)
MaxEntries == 3

MaxCutoffEntries == 2

MaxFailures == 3

SeqsUpTo(S, n) == UNION {[1..k -> S] : k \in 0..n}

CalPath == "/cal/"

\* the cutoff of TestSyncCalendarStartTimeFilter and the two modification
\* times around it
Cutoff == Date(2023, 10, 2, 12, 0, 0, 0)

ModBefore == Date(2023, 10, 2, 10, 0, 0, 0)

ModAfter == Date(2023, 10, 2, 14, 0, 0, 0)

\* calendar-data payloads; the cutoff is 20231002T120000Z
PEndBefore ==
    Bytes("BEGIN:VCALENDAR\nBEGIN:VEVENT\nDTSTART:20231001T090000Z\nDTEND:20231001T100000Z\nEND:VEVENT\nEND:VCALENDAR")

PEndAfter == Bytes("BEGIN:VEVENT\nDTSTART:20231001T090000Z\nDTEND:20231003T100000Z\nEND:VEVENT")

PEndBeforeStartAfter ==
    Bytes("BEGIN:VEVENT\nDTSTART:20231003T090000Z\nDTEND:20231001T100000Z\nEND:VEVENT")

PEndAt == Bytes("BEGIN:VEVENT\nDTEND:20231002T120000Z\nEND:VEVENT")

PStartBefore == Bytes("BEGIN:VEVENT\nDTSTART;VALUE=DATE:20231001\nEND:VEVENT")

PStartAfter == Bytes("BEGIN:VEVENT\r\nDTSTART:20231003T090000\r\nEND:VEVENT\r\n")

PStartAt == Bytes("BEGIN:VEVENT\nDTSTART:20231002T120000Z\nEND:VEVENT")

PRecurOpen ==
    Bytes("BEGIN:VEVENT\nDTSTART:20231001T090000Z\nDTEND:20231001T100000Z\nRRULE:FREQ=DAILY\nEND:VEVENT")

PRecurUntilBefore ==
    Bytes("BEGIN:VEVENT\nDTSTART:20231003T090000Z\nDTEND:20231003T100000Z\nRRULE:FREQ=DAILY;UNTIL=20231001T000000Z\nEND:VEVENT")

PRecurUntilAfter ==
    Bytes("BEGIN:VEVENT\nDTSTART:20230901T090000Z\nDTEND:20230901T100000Z\nRRULE:FREQ=WEEKLY;UNTIL=20231003T000000Z\nEND:VEVENT")

PRecurUntilAt == Bytes("BEGIN:VEVENT\nDTEND:20230901T100000Z\nRRULE:UNTIL=20231002T120000Z\nEND:VEVENT")

PRecurCount ==
    Bytes("BEGIN:VEVENT\nDTSTART:20230901T090000Z\nDTEND:20230901T100000Z\nRRULE:FREQ=DAILY;COUNT=3\nEND:VEVENT")

PNoMeta == Bytes("BEGIN:VCALENDAR\nBEGIN:VEVENT\nSUMMARY:x\nEND:VEVENT\nEND:VCALENDAR")

\* an event that ends after the cutoff, with a summary that is no ASCII (caf
\* and U+00E9) and a DTEND value after a no-break space (U+00A0)
PEndAfterPadded ==
    Bytes("BEGIN:VEVENT\nSUMMARY:caf") \o <<195, 169>> \o Bytes("\nDTEND:") \o <<194, 160>>
    \o Bytes("20231003T100000Z\nEND:VEVENT")

\* a rule without UNTIL and without COUNT, one of whose components has the
\* key u, n, t, U+0131 (a dotless i), l and a time before the cutoff
PRecurDotless ==
    Bytes("BEGIN:VEVENT\nDTSTART:20231003T090000Z\nRRULE:FREQ=DAILY;unt") \o <<196, 177>>
    \o Bytes("l=20231001T000000Z\nEND:VEVENT")

\* a response entry for a calendar object
ObjectEntry(href, data, mod, etag) ==
    [href |-> href, status |-> StatusOK, props |-> TRUE, bad |-> "", rtype |-> "none",
     maxsize |-> 0, data |-> data, mod |-> mod, etag |-> Bytes(etag),
     length |-> Len(data)]

\* a response entry for a collection
CollectionEntry(href, rtype) ==
    [href |-> href, status |-> StatusOK, props |-> TRUE, bad |-> "", rtype |-> rtype,
     maxsize |-> 1000, data |-> <<>>, mod |-> ZeroTime, etag |-> Bytes("caletag"),
     length |-> 0]

PathA == "/cal/a.ics"

PathB == "/cal/b.ics"

\* the entries of the answers to a sync-collection REPORT on CalPath
ClassifyEntries ==
    { CollectionEntry("/cal", "calendar"),
      CollectionEntry("/cal/", "other"),
      [CollectionEntry("/cal/", "calendar") EXCEPT !.bad = "max-resource-size"],
      [CollectionEntry("/cal/", "other") EXCEPT !.bad = "max-resource-size"],
      [CollectionEntry("/cal/", "other") EXCEPT !.bad = "resourcetype"],
      [CollectionEntry("/cal/", "none") EXCEPT !.props = FALSE],
      [CollectionEntry("/cal/", "calendar") EXCEPT !.status = StatusNotFound],
      [ObjectEntry("/cal/gone.ics", <<>>, ZeroTime, "") EXCEPT !.status = StatusNotFound],
      [ObjectEntry(PathA, <<>>, ZeroTime, "") EXCEPT !.status = ServerError.code],
      [ObjectEntry(PathB, <<>>, ZeroTime, "") EXCEPT !.bad = "getetag"],
      ObjectEntry(PathA, PEndBefore, ModAfter, "a1"),
      ObjectEntry(PathB, <<>>, ModBefore, "b1") }

\* entries whose payloads and modification times exercise the cutoff
CutoffEntries ==
    { ObjectEntry(PathA, PEndBefore, ModAfter, "1"),
      ObjectEntry(PathB, PEndAfter, ModBefore, "2"),
      ObjectEntry(PathA, PEndBeforeStartAfter, ModAfter, "3"),
      ObjectEntry(PathB, PEndAt, ZeroTime, "4"),
      ObjectEntry(PathA, PStartBefore, ModAfter, "5"),
      ObjectEntry(PathB, PStartAfter, ModBefore, "6"),
      ObjectEntry(PathA, PStartAt, ModBefore, "7"),
      ObjectEntry(PathB, PRecurOpen, ModBefore, "8"),
      ObjectEntry(PathA, PRecurUntilBefore, ModAfter, "9"),
      ObjectEntry(PathB, PRecurUntilAfter, ModBefore, "10"),
      ObjectEntry(PathA, PRecurUntilAt, ModBefore, "11"),
      ObjectEntry(PathB, PRecurCount, ModBefore, "12"),
      ObjectEntry(PathA, PNoMeta, ModBefore, "13"),
      ObjectEntry(PathB, PNoMeta, ModAfter, "14"),
      ObjectEntry(PathA, PNoMeta, ZeroTime, "15"),
      ObjectEntry(PathB, <<>>, ModBefore, "16"),
      ObjectEntry(PathA, <<>>, ModAfter, "17"),
      ObjectEntry(PathB, <<>>, ZeroTime, "18"),
      ObjectEntry(PathA, PEndAfterPadded, ModBefore, "19"),
      ObjectEntry(PathB, PRecurDotless, ModAfter, "20") }

Multistatus(entries) == [SyncToken |-> "token-2", Responses |-> entries]

ClassifyAnswers == {Multistatus(es) : es \in SeqsUpTo(ClassifyEntries, MaxEntries)}

CutoffAnswers == {Multistatus(es) : es \in SeqsUpTo(CutoffEntries, MaxCutoffEntries)}

ClassifyQueries ==
    [SyncToken : {"", "token-1"}, Limit : {0}, StartTime : {ZeroTime, Cutoff}]

CutoffQueries == {[SyncToken |-> "", Limit |-> 0, StartTime |-> Cutoff]}

Fetched(p, data, mod, etag) ==
    [Path |-> p, ModTime |-> mod, ContentLength |-> Len(data), ETag |-> Bytes(etag),
     Data |-> data]

\* the objects a calendar-multiget REPORT may return
FetchedLists ==
    { <<>>,
      <<Fetched(PathB, PEndAfter, ZeroTime, "")>>,
      <<Fetched(PathA, PEndBefore, ModAfter, "f1"), Fetched(PathB, PNoMeta, ModAfter, "f2")>>,
      <<Fetched(PathB, PEndBefore, ModAfter, "f3"), Fetched(PathB, PRecurOpen, ZeroTime, "f4")>>,
      <<Fetched(PathA, <<>>, ZeroTime, "f5")>>,
      <<Fetched(PathA, PStartAfter, ZeroTime, "f6"), Fetched(PathB, PStartBefore, ModAfter, "f7")>>,
      <<Fetched(PathA, PRecurUntilBefore, ModAfter, "f8"),
        Fetched(PathB, PRecurUntilAfter, ZeroTime, "f9")>>,
      <<Fetched(PathA, PNoMeta, ModBefore, "f10"), Fetched(PathB, PNoMeta, ZeroTime, "f11")>>,
      <<Fetched(PathA, PEndAfterPadded, ZeroTime, "f12"),
        Fetched(PathB, PRecurDotless, ModAfter, "f13")>> }

TransportErrors == {Cancelled, ServerError}

SyncNext(Q, A) ==
    \/ \E q \in Q : SyncCalendar(CalPath, q)
    \/ \E e \in TransportErrors : SyncCollectionFails(e)
    \/ pc = "sync-collection" /\ \E m \in A : SyncCollectionAnswers(m)
    \/ ProcessEntry
    \/ ReturnWithoutBackfill
    \/ SendMultiget
    \/ \E e \in TransportErrors : MultigetFails(e)
    \/ \E f \in FetchedLists : MultigetAnswers(f)

\* the instants CalendarQueryRange is called with: whole days, and one day
\* and half a second and one day and one second after the first of them, so
\* that a window is wider than one day by less than a second and a midpoint
\* falls between two seconds
Day(k) == Add(Date(2024, 1, 1, 0, 0, 0, 0), Duration(k, 0, 0))

RangeStarts == {ZeroTime, Day(0), Day(110)}

RangeEnds ==
    {ZeroTime, Day(0), Day(1), Add(Day(1), Duration(0, 0, 500000000)),
     Add(Day(1), Duration(0, 1, 0)), Day(3), Day(10), Day(100), Day(200)}

QueryObject(p, etag) ==
    [Path |-> p, ModTime |-> ModBefore, ContentLength |-> 42, ETag |-> Bytes(etag),
     Data |-> PNoMeta]

\* the objects a calendar-query REPORT may return: none, one, and a list that
\* holds a path twice and the path of the one-object answer in another version
QueryAnswers ==
    { <<>>,
      <<QueryObject(PathA, "q1")>>,
      <<QueryObject(PathB, "q2"), QueryObject(PathA, "q3"), QueryObject(PathB, "q4")>> }

QueryErrors ==
    {HTTPError(StatusInsufficientStorage), ServerError, Cancelled}

RangeNext ==
    \/ \E s \in RangeStarts, e \in RangeEnds : CalendarQueryRange(CalPath, s, e)
    \/ \E objs \in QueryAnswers : OnceAnswers(objs)
    \/ \E e \in QueryErrors : Len(failures) < MaxFailures /\ OnceFails(e)
    \/ \E objs \in QueryAnswers : WindowAnswers(objs)
    \/ \E e \in QueryErrors : Len(failures) < MaxFailures /\ WindowFails(e)

Next == SyncNext(ClassifyQueries, ClassifyAnswers) \/ RangeNext

Spec == Init /\ [][Next]_vars

\* SyncCalendar alone, on the answers that exercise the classification
SpecSync == Init /\ [][SyncNext(ClassifyQueries, ClassifyAnswers)]_vars

\* a full sync with a cutoff, on the answers that exercise the cutoff
SpecCutoff == Init /\ [][SyncNext(CutoffQueries, CutoffAnswers)]_vars

\* CalendarQueryRange alone
SpecRange == Init /\ [][RangeNext]_vars

(***************************************************************************)
(* PutCalendarObject and DeleteCalendarObject                              *)
(*                                                                         *)
(* The options of a call are Nil (a nil pointer) or Some of a record. A    *)
(* header of a request is Nil when it is not set. The answer to a PUT is   *)
(* [err, header]: the error of c.ic.Do and the headers of the response,    *)
(* [Location, ETag, ContentLength, LastModified]. ETag and ContentLength   *)
(* are the texts of the headers, empty when the header is absent or empty. *)
(* Location and LastModified are Nil when the header is absent or empty    *)
(* and otherwise Some of what url.Parse and http.ParseTime return for it:  *)
(* [ok, Path] and [ok, t], ok = FALSE being their error. The two parsers   *)
(* are not modelled.                                                       *)
(***************************************************************************)
StatusPreconditionFailed == 412

\* fmt.Sprintf of the tag between two double quotes
Quoted(tag) == "\"" \o tag \o "\""

\* the If-Match header PutCalendarObject and DeleteCalendarObject set
IfMatchHeader(opts) ==
    IF opts # Nil /\ opts[1].IfMatch # "" THEN Some(Quoted(opts[1].IfMatch)) ELSE Nil

\* the If-None-Match header PutCalendarObject sets
IfNoneMatchHeader(opts) ==
    IF opts = Nil \/ opts[1].IfNoneMatch = "" THEN Nil
    ELSE IF opts[1].IfNoneMatch = "*" THEN Some("*")
    ELSE Some(Quoted(opts[1].IfNoneMatch))

ErrSyntax == [kind |-> "invalid syntax", code |-> 0]

ErrRange == [kind |-> "value out of range", code |-> 0]

\* utf8.ValidRune(r)
ValidRune(r) == (r >= 0 /\ r < 55296) \/ (r > 57343 /\ r <= 1114111)

\* strconv's unhex: the value of a hexadecimal digit, -1 for another byte
HexVal(b) ==
    IF b >= 48 /\ b <= 57 THEN b - 48
    ELSE IF b >= 97 /\ b <= 102 THEN b - 87
    ELSE IF b >= 65 /\ b <= 70 THEN b - 55
    ELSE -1

\* the n bytes of s from position i on are there and are hexadecimal digits
IsHex(s, i, n) == i + n - 1 <= Len(s) /\ \A k \in i..(i + n - 1) : HexVal(s[k]) >= 0

\* the number the n hexadecimal digits of s from position i on denote
RECURSIVE HexNum(_, _, _)
HexNum(s, i, n) ==
    IF n = 0 THEN 0 ELSE 16 * HexNum(s, i, n - 1) + HexVal(s[i + n - 1])

NoChar == [ok |-> FALSE, value |-> 0, multibyte |-> FALSE, size |-> 0]

Char(value, multibyte, size) ==
    [ok |-> TRUE, value |-> value, multibyte |-> multibyte, size |-> size]

\* the escape of strconv.UnquoteChar that begins with the backslash at
\* position i of s and goes on with the byte c
UnquoteEscape(s, i, c, quote) ==
    IF c = 97 THEN Char(7, FALSE, 2)
    ELSE IF c = 98 THEN Char(8, FALSE, 2)
    ELSE IF c = 102 THEN Char(12, FALSE, 2)
    ELSE IF c = 110 THEN Char(10, FALSE, 2)
    ELSE IF c = 114 THEN Char(13, FALSE, 2)
    ELSE IF c = 116 THEN Char(9, FALSE, 2)
    ELSE IF c = 118 THEN Char(11, FALSE, 2)
    ELSE IF c = 120
    THEN (IF IsHex(s, i + 2, 2) THEN Char(HexNum(s, i + 2, 2), FALSE, 4) ELSE NoChar)
    ELSE IF c = 117
    THEN (IF IsHex(s, i + 2, 4) /\ ValidRune(HexNum(s, i + 2, 4))
          THEN Char(HexNum(s, i + 2, 4), TRUE, 6) ELSE NoChar)
    ELSE IF c = 85
    THEN (IF IsHex(s, i + 2, 8) /\ HexNum(s, i + 2, 2) = 0
             /\ ValidRune(HexNum(s, i + 4, 6))
          THEN Char(HexNum(s, i + 4, 6), TRUE, 10) ELSE NoChar)
    ELSE IF c >= 48 /\ c <= 55
    THEN (IF i + 3 <= Len(s) /\ s[i + 2] >= 48 /\ s[i + 2] <= 55
             /\ s[i + 3] >= 48 /\ s[i + 3] <= 55
             /\ (c - 48) * 64 + (s[i + 2] - 48) * 8 + (s[i + 3] - 48) <= 255
          THEN Char((c - 48) * 64 + (s[i + 2] - 48) * 8 + (s[i + 3] - 48), FALSE, 4)
          ELSE NoChar)
    ELSE IF c = 92 THEN Char(92, FALSE, 2)
    ELSE IF c = 39 \/ c = 34 THEN (IF c = quote THEN Char(c, FALSE, 2) ELSE NoChar)
    ELSE NoChar

\* strconv.UnquoteChar(s[i:], quote) for i <= Len(s) and a quote that is ' or
\* ": [ok, value, multibyte, size], size being the number of bytes read
UnquoteChar(s, i, quote) ==
    IF s[i] = quote THEN NoChar
    ELSE IF s[i] >= RuneSelf
    THEN Char(DecodeRune(s, i).r, TRUE, DecodeRune(s, i).size)
    ELSE IF s[i] # 92 THEN Char(s[i], FALSE, 1)
    ELSE IF i + 1 > Len(s) THEN NoChar
    ELSE UnquoteEscape(s, i, s[i + 1], quote)

NotUnquoted == [ok |-> FALSE, v |-> <<>>]

\* the bytes strconv's unquote appends for the character c
CharBytes(c) ==
    IF c.value < RuneSelf \/ ~c.multibyte THEN <<c.value>> ELSE EncodeRune(c.value)

\* the loop of strconv's unquote over a literal in single or double quotes,
\* from position i on, acc being what is unquoted so far: it ends at the
\* closing quote, which has to be the last byte; a newline or a character
\* that does not unquote is an error; in single quotes the loop ends after
\* one character
RECURSIVE UnquoteChars(_, _, _, _)
UnquoteChars(s, i, quote, acc) ==
    IF i > Len(s) THEN NotUnquoted
    ELSE IF s[i] = quote
    THEN (IF i = Len(s) THEN [ok |-> TRUE, v |-> acc] ELSE NotUnquoted)
    ELSE IF s[i] = 10 \/ ~UnquoteChar(s, i, quote).ok THEN NotUnquoted
    ELSE LET c == UnquoteChar(s, i, quote)
         IN  IF quote = 39
             THEN (IF i + c.size = Len(s) /\ s[Len(s)] = quote
                   THEN [ok |-> TRUE, v |-> acc \o CharBytes(c)] ELSE NotUnquoted)
             ELSE UnquoteChars(s, i + c.size, quote, acc \o CharBytes(c))

\* strconv.Unquote(s): [ok, v], ok = FALSE being ErrSyntax. s has to be a Go
\* literal in double quotes, in single quotes or in back quotes (byte 96); a
\* literal in back quotes is taken as it is, without its carriage returns
Unquote(s) ==
    IF Len(s) < 2 THEN NotUnquoted
    ELSE IF s[1] = 34 \/ s[1] = 39 THEN UnquoteChars(s, 2, s[1], <<>>)
    ELSE IF s[1] = 96
    THEN (IF s[Len(s)] = 96 /\ \A k \in 2..(Len(s) - 1) : s[k] # 96
          THEN [ok |-> TRUE,
                v |-> SelectSeq(SubSeq(s, 2, Len(s) - 1), LAMBDA b : b # 13)]
          ELSE NotUnquoted)
    ELSE NotUnquoted

\* the largest uint64 and the largest magnitudes of an int64, in digits
MaxUint64 == Bytes("18446744073709551615")

\* the digit string a, without leading zeros, is a number greater than the
\* digit string b
Exceeds(a, b) == Len(a) > Len(b) \/ (Len(a) = Len(b) /\ ~DigitsLeq(a, b))

\* strconv.ParseInt(s, 10, 64) for a non-empty s: the error "" (none),
\* "syntax" or "range". The digits are read from the left: the reading stops
\* with a range error once they exceed a uint64, with a syntax error at a
\* byte that is no digit.
ParseIntError(s) ==
    LET signed == At(s, 1) \in {Bytes("+"), Bytes("-")}
        body == IF signed THEN From(s, 2) ELSE s
        run == SubSeq(body, 1, DigitRun(body))
    IN  IF Len(body) = 0 THEN "syntax"
        ELSE IF Exceeds(TrimZeros(run), MaxUint64) THEN "range"
        ELSE IF Len(run) < Len(body) THEN "syntax"
        ELSE IF InIntRange(TrimZeros(body), At(s, 1) = Bytes("-")) THEN ""
        ELSE "range"

\* strconv.ParseInt(s, 10, 64) of a value it accepts
IntVal(s) ==
    IF At(s, 1) = Bytes("-") THEN 0 - NumVal(From(s, 2))
    ELSE IF At(s, 1) = Bytes("+") THEN NumVal(From(s, 2))
    ELSE NumVal(s)

\* the error of url.Parse and the error of http.ParseTime
URLError == [kind |-> "parse", code |-> 0]

TimeError == [kind |-> "parsing time", code |-> 0]

\* populateCalendarObject(co, h): [v, err], v being the object as the call
\* leaves it, also when it returns an error
populateCalendarObject(co, h) ==
    LET located == IF h.Location = Nil THEN co
                   ELSE [co EXCEPT !.Path = h.Location[1].Path]
        unquoted == Unquote(h.ETag)
        tagged == IF h.ETag = <<>> THEN located ELSE [located EXCEPT !.ETag = unquoted.v]
        sized == IF h.ContentLength = <<>> THEN tagged
                 ELSE [tagged EXCEPT !.ContentLength = IntVal(h.ContentLength)]
    IN  IF h.Location # Nil /\ ~h.Location[1].ok THEN [v |-> co, err |-> URLError]
        ELSE IF h.ETag # <<>> /\ ~unquoted.ok THEN [v |-> located, err |-> ErrSyntax]
        ELSE IF h.ContentLength # <<>> /\ ParseIntError(h.ContentLength) = "syntax"
        THEN [v |-> tagged, err |-> Wrapped("strconv.ParseInt", ErrSyntax)]
        ELSE IF h.ContentLength # <<>> /\ ParseIntError(h.ContentLength) = "range"
        THEN [v |-> tagged, err |-> Wrapped("strconv.ParseInt", ErrRange)]
        ELSE IF h.LastModified = Nil THEN [v |-> sized, err |-> NoError]
        ELSE IF ~h.LastModified[1].ok THEN [v |-> sized, err |-> TimeError]
        ELSE [v |-> [sized EXCEPT !.ModTime = h.LastModified[1].t], err |-> NoError]

\* c.ic.NewRequest returned the error e: the call returns it and sends
\* nothing
NoRequest(e) ==
    /\ e # NoError
    /\ result' = [resp |-> Nil, err |-> e]
    /\ pc' = "done"
    /\ UNCHANGED requests

\* the call, up to the PUT it sends; e is what c.ic.NewRequest returns
PutCalendarObject(p, opts, e) ==
    /\ pc = "idle"
    /\ path' = p
    /\ argument' = <<p, opts>>
    /\ \/ NoRequest(e)
       \/ /\ e = NoError
          /\ requests' = Append(requests,
                                [kind |-> "put", path |-> p,
                                 contentType |-> "text/calendar",
                                 ifMatch |-> IfMatchHeader(opts),
                                 ifNoneMatch |-> IfNoneMatchHeader(opts)])
          /\ pc' = "put"
          /\ UNCHANGED result
    /\ UNCHANGED <<payload, unfolded, extracted, returned, syncVars, rangeVars>>

\* what PutCalendarObject returns once c.ic.Do returned reply
PutResult(p, reply) ==
    IF reply.err # NoError
    THEN [resp |-> Nil,
          err |-> IF IsHTTPError(reply.err) /\ reply.err.code = StatusPreconditionFailed
                  THEN Errorf("caldav: precondition failed - resource ETag mismatch or conflict")
                  ELSE reply.err]
    ELSE LET co == populateCalendarObject([NoObject EXCEPT !.Path = p], reply.header)
         IN  IF co.err # NoError THEN [resp |-> Nil, err |-> co.err]
             ELSE [resp |-> Some(co.v), err |-> NoError]

\* c.ic.Do returns reply, and PutCalendarObject returns
PutReturns(reply) ==
    /\ pc = "put"
    /\ answers' = Append(answers, reply)
    /\ result' = PutResult(path, reply)
    /\ pc' = "done"
    /\ UNCHANGED <<path, requests, start, end, cursor, windowEnd, results, index,
                   stack, failures, served, syncVars, parseVars>>

\* the call, up to the DELETE it sends; e is what c.ic.NewRequest returns
DeleteCalendarObject(p, opts, e) ==
    /\ pc = "idle"
    /\ path' = p
    /\ argument' = <<p, opts>>
    /\ \/ NoRequest(e)
       \/ /\ e = NoError
          /\ requests' = Append(requests,
                                [kind |-> "delete", path |-> p,
                                 ifMatch |-> IfMatchHeader(opts)])
          /\ pc' = "delete"
          /\ UNCHANGED result
    /\ UNCHANGED <<payload, unfolded, extracted, returned, syncVars, rangeVars>>

\* DeleteResult returning every error of the transport as it is
DeleteResultVerbatim(p, err) == err

\* the error DeleteCalendarObject returns once c.ic.Do returned err
DeleteResult(p, err) ==
    IF ~IsHTTPError(err) THEN err
    ELSE IF err.code = StatusPreconditionFailed
    THEN Errorf("caldav: precondition failed - resource ETag mismatch, resource may have been modified")
    ELSE IF err.code = StatusNotFound
    THEN Errorf("caldav: calendar object not found at path: " \o p)
    ELSE err

\* c.ic.Do returns err (NoError for a response of success), and
\* DeleteCalendarObject returns
DeleteReturns(err) ==
    /\ pc = "delete"
    /\ answers' = Append(answers, err)
    /\ result' = [resp |-> Nil, err |-> DeleteResult(path, err)]
    /\ pc' = "done"
    /\ UNCHANGED <<path, requests, start, end, cursor, windowEnd, results, index,
                   stack, failures, served, syncVars, parseVars>>

\* const MIMEType
MIMEType == Bytes("text/calendar")

\* the string of this module that has the ASCII bytes b
RECURSIVE String(_)
String(b) ==
    IF b = <<>> THEN ""
    ELSE (CHOOSE c \in DOMAIN ByteOfChar : ByteOfChar[c] = b[1]) \o String(Tail(b))

\* the error of mime.ParseMediaType and the error of io.ReadAll
MediaTypeError == [kind |-> "mime", code |-> 0]

ReadError == [kind |-> "read", code |-> 0]

\* the call, up to the GET it sends; e is what c.ic.NewRequest returns
GetCalendarObject(p, e) ==
    /\ pc = "idle"
    /\ path' = p
    /\ argument' = <<p>>
    /\ \/ NoRequest(e)
       \/ /\ e = NoError
          /\ requests' = Append(requests, [kind |-> "get", path |-> p, accept |-> MIMEType])
          /\ pc' = "get-object"
          /\ UNCHANGED result
    /\ UNCHANGED <<payload, unfolded, extracted, returned, syncVars, rangeVars>>

\* the error GetCalendarObject returns before it reads the body, once
\* c.ic.Do returned reply = [err, mediaType, url, header], or NoError:
\* mediaType is what mime.ParseMediaType makes of the Content-Type header,
\* [ok, v] with v a media type in lower case, which %q writes between double
\* quotes as it is; url is resp.Request.URL.Path
GetObjectHeaderError(reply) ==
    IF reply.err # NoError THEN reply.err
    ELSE IF ~reply.mediaType.ok THEN MediaTypeError
    ELSE IF ~EqualFold(reply.mediaType.v, MIMEType)
    THEN Errorf("caldav: expected Content-Type \"" \o String(MIMEType)
                \o "\", got \"" \o String(reply.mediaType.v) \o "\"")
    ELSE NoError

\* c.ic.Do returns reply, the headers of the response: GetCalendarObject
\* returns an error, or goes on to read the body
GetCalendarObjectAnswers(reply) ==
    /\ pc = "get-object"
    /\ answers' = Append(answers, reply)
    /\ IF GetObjectHeaderError(reply) # NoError
       THEN /\ result' = [resp |-> Nil, err |-> GetObjectHeaderError(reply)]
            /\ pc' = "done"
       ELSE /\ pc' = "get-body"
            /\ UNCHANGED result
    /\ UNCHANGED <<path, requests, start, end, cursor, windowEnd, results, index,
                   stack, failures, served, syncVars, parseVars>>

\* what GetCalendarObject returns once io.ReadAll returned body = [err,
\* data] for the response reply
GetObjectResult(reply, body) ==
    IF body.err # NoError THEN [resp |-> Nil, err |-> body.err]
    ELSE LET co == populateCalendarObject(
                       [NoObject EXCEPT !.Path = reply.url, !.Data = body.data],
                       reply.header)
         IN  IF co.err # NoError THEN [resp |-> Nil, err |-> co.err]
             ELSE [resp |-> Some(co.v), err |-> NoError]

\* io.ReadAll(resp.Body) returns body, and GetCalendarObject returns
GetCalendarObjectReturns(body) ==
    /\ pc = "get-body"
    /\ result' = GetObjectResult(answers[Len(answers)], body)
    /\ pc' = "done"
    /\ UNCHANGED <<path, requests, syncVars, rangeVars, parseVars>>

\* the properties ListCalendarObjects asks for
ListedProps == {"getetag", "getlastmodified", "getcontentlength", "resourcetype"}

\* the call, up to the PROPFIND of depth one it sends
ListCalendarObjects(p, fetchData) ==
    /\ pc = "idle"
    /\ path' = p
    /\ argument' = <<p, fetchData>>
    /\ requests' = Append(requests, [kind |-> "propfind", path |-> p, depth |-> 1,
                                     props |-> ListedProps])
    /\ pc' = "list-objects"
    /\ UNCHANGED <<result, payload, unfolded, extracted, returned, syncVars, rangeVars>>

\* one iteration of the loop of ListCalendarObjects over ms.Responses:
\* acc is [paths, objects], objectPaths and objects so far
ListEntry(resp, p, fetchData, acc) ==
    LET pe == Path(resp)
        co == decodeCalendarObject(resp, pe.p)
    IN  IF pe.err # NoError THEN acc
        ELSE IF sameCollectionPath(pe.p, p) THEN acc
        ELSE IF /\ resp.props
                /\ resp.bad # "resourcetype"
                /\ resp.rtype \notin {"none", "empty"}
        THEN acc
        ELSE IF fetchData THEN [acc EXCEPT !.paths = Append(@, pe.p)]
        ELSE IF co.err # NoError THEN acc
        ELSE [acc EXCEPT !.objects = Append(@, co.v)]

RECURSIVE ListLoop(_, _, _, _, _)
ListLoop(responses, i, p, fetchData, acc) ==
    IF i > Len(responses) THEN acc
    ELSE ListLoop(responses, i + 1, p, fetchData,
                  ListEntry(responses[i], p, fetchData, acc))

\* c.ic.PropFind returns reply = [err, ms]: ListCalendarObjects returns, or
\* c.CalendarMultiget(ctx, objectPaths, comp) sends its REPORT
ListCalendarObjectsAnswers(reply) ==
    /\ pc = "list-objects"
    /\ LET acc == ListLoop(reply.ms.Responses, 1, path, argument[2],
                           [paths |-> <<>>, objects |-> <<>>])
       IN  IF reply.err # NoError
           THEN /\ result' = [resp |-> Nil, err |-> reply.err]
                /\ pc' = "done"
                /\ UNCHANGED requests
           ELSE IF argument[2] /\ Len(acc.paths) > 0
           THEN /\ requests' = Append(requests,
                                      MultigetRequest(acc.paths,
                                          CompRequest("VCALENDAR", TRUE, TRUE, <<>>, Nil)))
                /\ pc' = "list-multiget"
                /\ UNCHANGED result
           ELSE /\ result' = [resp |-> Some(acc.objects), err |-> NoError]
                /\ pc' = "done"
                /\ UNCHANGED requests
    /\ UNCHANGED <<path, syncVars, rangeVars, parseVars>>

\* c.ic.ReportDepth returns reply = [err, ms] to CalendarMultiget, and
\* ListCalendarObjects returns what CalendarMultiget returns
ListMultigetReturns(reply) ==
    /\ pc = "list-multiget"
    /\ result' = CalendarMultigetResult(reply)
    /\ pc' = "done"
    /\ UNCHANGED <<path, requests, syncVars, rangeVars, parseVars>>

\* CalendarMultiget called by the caller, up to the REPORT it sends: comp
\* is Nil (a nil pointer) or Some of a component request, e is what
\* internal.EncodeProp returns
CalendarMultiget(paths, comp, e) ==
    /\ pc = "idle"
    /\ argument' = <<paths, comp>>
    /\ IF Len(paths) = 0
       THEN /\ result' = [resp |-> Nil, err |-> NoError]
            /\ pc' = "done"
            /\ UNCHANGED requests
       ELSE IF comp = Nil
       THEN /\ pc' = "panicked"
            /\ UNCHANGED <<result, requests>>
       ELSE IF e # NoError
       THEN /\ result' = [resp |-> Nil, err |-> e]
            /\ pc' = "done"
            /\ UNCHANGED requests
       ELSE /\ requests' = Append(requests, MultigetRequest(paths, comp[1]))
            /\ pc' = "calendar-multiget"
            /\ UNCHANGED result
    /\ UNCHANGED <<path, payload, unfolded, extracted, returned, syncVars, rangeVars>>

\* c.ic.ReportDepth returns reply = [err, ms], and CalendarMultiget returns
CalendarMultigetReturns(reply) ==
    /\ pc = "calendar-multiget"
    /\ result' = CalendarMultigetResult(reply)
    /\ pc' = "done"
    /\ UNCHANGED <<path, requests, syncVars, rangeVars, parseVars>>

\* CalendarQuery called by the caller, up to the REPORT it sends: q is Nil
\* (a nil pointer) or Some of [CompRequest, Filter], e is what
\* internal.EncodeProp returns
CalendarQuery(p, q, e) ==
    /\ pc = "idle"
    /\ path' = p
    /\ argument' = <<p, q>>
    /\ IF q = Nil
       THEN /\ pc' = "panicked"
            /\ UNCHANGED <<result, requests>>
       ELSE IF e # NoError
       THEN /\ result' = [resp |-> Nil, err |-> e]
            /\ pc' = "done"
            /\ UNCHANGED requests
       ELSE /\ requests' = Append(requests, CalendarQueryRequest(p, q[1]))
            /\ pc' = "calendar-query"
            /\ UNCHANGED result
    /\ UNCHANGED <<payload, unfolded, extracted, returned, syncVars, rangeVars>>

\* c.ic.ReportDepth returns reply = [err, ms], and CalendarQuery returns
CalendarQueryReturns(reply) ==
    /\ pc = "calendar-query"
    /\ result' = CalendarQueryResult(reply)
    /\ pc' = "done"
    /\ UNCHANGED <<path, requests, syncVars, rangeVars, parseVars>>

ObjectPaths == {"/cal/test.ics", "/cal/missing.ics"}

PutOptions ==
    {Nil} \cup { Some([IfMatch |-> m, IfNoneMatch |-> n]) :
                 m \in {"", "abc123"}, n \in {"", "*", "xyz"} }

DeleteOptions == {Nil} \cup { Some([IfMatch |-> m]) : m \in {"", "right", "wrong"} }

\* the errors of c.ic.Do: 404, 412, 500, 507 and a cancelled context
DoErrors ==
    { HTTPError(StatusNotFound), HTTPError(StatusPreconditionFailed), ServerError,
      HTTPError(StatusInsufficientStorage), Cancelled }

\* the ETag headers of a response: none, a strong tag, a weak tag, a tag
\* without quotes, strong tags that hold a backslash, an escape or a byte
\* that is no UTF-8, and a tag in single quotes
ETagHeaders ==
    { <<>>, Bytes("\"newtag\""), Bytes("W/\"weak\""), Bytes("bare"),
      Bytes("\"a\\qb\""), Bytes("\"a\\\\b\""), Bytes("\"a\\x41\\u00e9\""),
      <<34, 255, 34>>, Bytes("''") }

\* the Content-Length headers: none, numbers, no number, and a number that
\* is no int64
LengthHeaders ==
    { <<>>, Bytes("0"), Bytes("+12"), Bytes("x"), Bytes("9223372036854775808") }

\* the Location and Last-Modified headers: none, one that parses and one
\* that does not
LocationHeaders ==
    { Nil, Some([ok |-> TRUE, Path |-> "/cal/moved.ics"]), Some([ok |-> FALSE, Path |-> ""]) }

LastModifiedHeaders ==
    { Nil, Some([ok |-> TRUE, t |-> ModAfter]), Some([ok |-> FALSE, t |-> ZeroTime]) }

NoHeader == [Location |-> Nil, ETag |-> <<>>, ContentLength |-> <<>>, LastModified |-> Nil]

PutReplies ==
    { [err |-> e, header |-> NoHeader] : e \in DoErrors }
    \cup { [err |-> NoError, header |-> [NoHeader EXCEPT !.ETag = t, !.ContentLength = n]] :
           t \in ETagHeaders, n \in LengthHeaders }
    \cup { [err |-> NoError,
            header |-> [Location |-> l, ETag |-> t, ContentLength |-> n,
                        LastModified |-> m]] :
           l \in LocationHeaders, m \in LastModifiedHeaders,
           t \in {Bytes("\"newtag\""), Bytes("bare")}, n \in {Bytes("7"), Bytes("x")} }

\* what mime.ParseMediaType makes of the Content-Type header: an error, the
\* type of a calendar and another type
MediaTypes ==
    { [ok |-> FALSE, v |-> <<>>], [ok |-> TRUE, v |-> MIMEType],
      [ok |-> TRUE, v |-> Bytes("text/html")] }

\* what io.ReadAll returns for the body: a calendar, nothing and an error
Bodies ==
    { [err |-> NoError, data |-> PEndAfter], [err |-> NoError, data |-> <<>>],
      [err |-> ReadError, data |-> <<>>] }

\* the headers of the answer to a GET: none, those of an object, and a tag
\* without quotes
GetHeaders ==
    { NoHeader,
      [Location |-> Nil, ETag |-> Bytes("\"gettag\""), ContentLength |-> Bytes("120"),
       LastModified |-> Some([ok |-> TRUE, t |-> ModAfter])],
      [NoHeader EXCEPT !.ETag = Bytes("bare")] }

GetReplies ==
    { [err |-> e, mediaType |-> [ok |-> FALSE, v |-> <<>>], url |-> "",
       header |-> NoHeader] :
      e \in DoErrors }
    \cup { [err |-> NoError, mediaType |-> m, url |-> u, header |-> h] :
           m \in MediaTypes, u \in {"/cal/test.ics", "/cal/moved.ics"},
           h \in GetHeaders }

\* the most entries of an answer that lists objects
MaxListed == 2

\* the entries of the answers to the PROPFIND of ListCalendarObjects on
\* CalPath: the collection itself, two objects, an object whose tag does
\* not decode, one without properties, one that is gone, a collection
\* inside, an entry whose resource type does not decode, and an object with
\* an empty resource type
ListEntries ==
    { CollectionEntry("/cal", "calendar"),
      ObjectEntry(PathA, <<>>, ModAfter, "a1"),
      [ObjectEntry(PathA, <<>>, ModAfter, "a1") EXCEPT !.rtype = "empty"],
      ObjectEntry(PathB, <<>>, ZeroTime, "b1"),
      [ObjectEntry("/cal/c.ics", <<>>, ModAfter, "c1") EXCEPT !.bad = "getetag"],
      [ObjectEntry("/cal/d.ics", <<>>, ModAfter, "d1") EXCEPT !.props = FALSE],
      [ObjectEntry("/cal/e.ics", <<>>, ModAfter, "e1") EXCEPT !.status = StatusNotFound],
      CollectionEntry("/cal/sub/", "other"),
      [CollectionEntry("/cal/f.ics", "other") EXCEPT !.bad = "resourcetype"] }

ListReplies ==
    { [err |-> e, ms |-> NoResponse] : e \in TransportErrors }
    \cup { [err |-> NoError, ms |-> Multistatus(es)] : es \in SeqsUpTo(ListEntries, MaxListed) }

\* the entries of the answers to a calendar-query and a calendar-multiget
\* REPORT: the object of TestCalendarQuerySendsCorrectBody, an object
\* without modification time, one that is gone, one whose tag does not
\* decode and one without properties
ReportEntries ==
    { [ObjectEntry("/cal/event1.ics", Bytes("BEGIN:VCALENDAR\\nEND:VCALENDAR"), Cutoff,
                   "etag123") EXCEPT !.length = 42],
      ObjectEntry(PathB, PEndAfter, ZeroTime, "b1"),
      [ObjectEntry(PathA, <<>>, ZeroTime, "") EXCEPT !.status = StatusNotFound],
      [ObjectEntry(PathA, PEndBefore, ModAfter, "a1") EXCEPT !.bad = "getetag"],
      [ObjectEntry(PathA, <<>>, ModAfter, "a2") EXCEPT !.props = FALSE] }

ReportReplies ==
    { [err |-> e, ms |-> NoResponse] : e \in TransportErrors }
    \cup { [err |-> NoError, ms |-> Multistatus(es)] :
           es \in SeqsUpTo(ReportEntries, MaxListed) }

\* the paths CalendarMultiget is called with: none, one, two, one without
\* a "/" and one whose only "/" is its first byte
PathLists == { <<>>, <<PathA>>, <<PathB, PathA>>, <<"a.ics">>, <<"/a.ics", PathA>> }

\* the component requests it is called with: a nil pointer, the whole
\* calendar, and the one of SyncCalendar
CompRequests ==
    { Nil, Some(CompRequest("VCALENDAR", TRUE, TRUE, <<>>, Nil)),
      Some(standardCompRequest) }

\* the queries CalendarQuery is called with: a nil pointer, the query of
\* TestCalendarQuerySendsCorrectBody, and the query of one day
Queries ==
    { Nil,
      Some([CompRequest |-> CompRequest("VCALENDAR", TRUE, TRUE, <<>>, Nil),
            Filter |-> [Name |-> "VCALENDAR", Comps |-> <<>>]]),
      Some(RangeQuery(Day(0), Day(1))) }

\* what internal.EncodeProp returns
EncodeErrors == {NoError, EncodeError}

\* what c.ic.NewRequest returns: no error, and the error of a path that is
\* no URL
NewRequestErrors == {NoError, URLError}

ObjectsNext ==
    \/ \E p \in ObjectPaths, o \in PutOptions, e \in NewRequestErrors :
           PutCalendarObject(p, o, e)
    \/ \E r \in PutReplies : PutReturns(r)
    \/ \E p \in ObjectPaths, o \in DeleteOptions, e \in NewRequestErrors :
           DeleteCalendarObject(p, o, e)
    \/ \E e \in DoErrors \cup {NoError} : DeleteReturns(e)
    \/ \E p \in ObjectPaths, e \in NewRequestErrors : GetCalendarObject(p, e)
    \/ \E r \in GetReplies : GetCalendarObjectAnswers(r)
    \/ \E b \in Bodies : GetCalendarObjectReturns(b)
    \/ \E f \in BOOLEAN : ListCalendarObjects(CalPath, f)
    \/ pc = "list-objects" /\ \E r \in ListReplies : ListCalendarObjectsAnswers(r)
    \/ \E r \in ReportReplies : ListMultigetReturns(r)
    \/ \E ps \in PathLists, c \in CompRequests, e \in EncodeErrors :
           CalendarMultiget(ps, c, e)
    \/ \E r \in ReportReplies : CalendarMultigetReturns(r)
    \/ \E q \in Queries, e \in EncodeErrors : CalendarQuery(CalPath, q, e)
    \/ \E r \in ReportReplies : CalendarQueryReturns(r)

(***************************************************************************)
(* FindCalendars, GetCalendar and SyncCalendarListWithLimit                *)
(***************************************************************************)
\* the body of the PROPFIND of FindCalendars and GetCalendar: the variable
\* calendarPropFind, declared in a file that is not at hand, which a request
\* carries under its name
calendarPropFind == {"calendarPropFind"}

ErrMaxResourceSize == Errorf("caldav: max-resource-size must be a positive integer")

\* the call ends with the outcome r: it returns r, or it panics and returns
\* nothing
Ends(r) ==
    IF r.err = Panic
    THEN pc' = "panicked" /\ UNCHANGED result
    ELSE pc' = "done" /\ result' = r

\* the loop of FindCalendars over ms.Responses, l the list built so far
RECURSIVE FindCalendarsLoop(_, _, _)
FindCalendarsLoop(responses, i, l) ==
    IF i > Len(responses) THEN [v |-> Some(l), err |-> NoError]
    ELSE LET c == parseCalendarFromResponse(responses[i])
         IN  IF c.err # NoError THEN [v |-> Nil, err |-> c.err]
             ELSE IF c.v = Nil THEN FindCalendarsLoop(responses, i + 1, l)
             ELSE IF c.v[1].MaxResourceSize < 0
             THEN [v |-> Nil, err |-> ErrMaxResourceSize]
             ELSE FindCalendarsLoop(responses, i + 1, Append(l, c.v[1]))

\* the call, up to the PROPFIND of depth one it sends
FindCalendars(calendarHomeSet) ==
    /\ pc = "idle"
    /\ path' = calendarHomeSet
    /\ requests' = Append(requests, [kind |-> "propfind", path |-> calendarHomeSet,
                                     depth |-> 1, props |-> calendarPropFind])
    /\ pc' = "find-calendars"
    /\ UNCHANGED <<result, syncVars, rangeVars, parseVars>>

\* c.ic.PropFind returns reply = [err, ms], and FindCalendars returns
FindCalendarsReturns(reply) ==
    /\ pc = "find-calendars"
    /\ Ends(IF reply.err # NoError THEN [resp |-> Nil, err |-> reply.err]
            ELSE LET r == FindCalendarsLoop(reply.ms.Responses, 1, <<>>)
                 IN  [resp |-> r.v, err |-> r.err])
    /\ UNCHANGED <<path, requests, syncVars, rangeVars, parseVars>>

\* GetCalendar once c.ic.PropFindFlat answered the response resp
GetCalendarResult(p, resp) ==
    LET c == parseCalendarFromResponse(resp)
    IN  IF c.err = Panic THEN [resp |-> Nil, err |-> Panic]
        ELSE IF c.err # NoError
        THEN [resp |-> Nil, err |-> Wrapped("caldav: failed to parse calendar response", c.err)]
        ELSE IF c.v = Nil
        THEN [resp |-> Nil,
              err |-> Errorf("caldav: resource at path " \o p
                             \o " is not a calendar collection")]
        ELSE IF c.v[1].MaxResourceSize < 0 THEN [resp |-> Nil, err |-> ErrMaxResourceSize]
        ELSE [resp |-> c.v, err |-> NoError]

\* the call, up to the PROPFIND of depth zero it sends
GetCalendar(p) ==
    /\ pc = "idle"
    /\ path' = p
    /\ requests' = Append(requests, [kind |-> "propfind", path |-> p, depth |-> 0,
                                     props |-> calendarPropFind])
    /\ pc' = "get-calendar"
    /\ UNCHANGED <<result, syncVars, rangeVars, parseVars>>

\* what GetCalendar returns once c.ic.PropFindFlat returned reply =
\* [err, resp]
GetCalendarOutcome(p, reply) ==
    IF reply.err # NoError
    THEN [resp |-> Nil,
          err |-> Wrapped("caldav: failed to get calendar properties", reply.err)]
    ELSE GetCalendarResult(p, reply.resp)

\* c.ic.PropFindFlat returns reply, and GetCalendar returns
GetCalendarReturns(reply) ==
    /\ pc = "get-calendar"
    /\ Ends(GetCalendarOutcome(path, reply))
    /\ UNCHANGED <<path, requests, syncVars, rangeVars, parseVars>>

\* one iteration of the loop of SyncCalendarListWithLimit: [err, result]
SyncListEntry(resp, home, res) ==
    LET pe == Path(resp)
        c == parseCalendarFromResponse(resp)
    IN  IF pe.err # NoError THEN [err |-> NoError, result |-> res]
        ELSE IF sameCollectionPath(pe.p, home) THEN [err |-> NoError, result |-> res]
        ELSE IF Err(resp) = HTTPError(StatusNotFound)
        THEN [err |-> NoError,
              result |-> [res EXCEPT !.DeletedCalendars = Append(@, pe.p)]]
        ELSE IF Err(resp) # NoError THEN [err |-> NoError, result |-> res]
        ELSE IF c.err = Panic THEN [err |-> Panic, result |-> res]
        ELSE IF c.err # NoError \/ c.v = Nil THEN [err |-> NoError, result |-> res]
        ELSE IF c.v[1].MaxResourceSize < 0
        THEN [err |-> Errorf("caldav: max-resource-size must be a positive integer for calendar "
                             \o pe.p),
              result |-> res]
        ELSE [err |-> NoError,
              result |-> [res EXCEPT !.UpdatedCalendars = Append(@, c.v[1])]]

RECURSIVE SyncListLoop(_, _, _, _)
SyncListLoop(responses, i, home, res) ==
    IF i > Len(responses) THEN [resp |-> Some(res), err |-> NoError]
    ELSE LET step == SyncListEntry(responses[i], home, res)
         IN  IF step.err # NoError THEN [resp |-> Nil, err |-> step.err]
             ELSE SyncListLoop(responses, i + 1, home, step.result)

\* the call, up to the sync-collection REPORT it sends
SyncCalendarListWithLimit(calendarHomeSetURL, syncToken, limit) ==
    /\ pc = "idle"
    /\ path' = calendarHomeSetURL
    /\ requests' = Append(requests,
                          [kind |-> "sync-collection", path |-> calendarHomeSetURL,
                           token |-> syncToken, limit |-> limit])
    /\ pc' = "sync-list"
    /\ UNCHANGED <<result, syncVars, rangeVars, parseVars>>

\* c.ic.SyncCollection returns reply = [err, ms], and the call returns
SyncCalendarListReturns(reply) ==
    /\ pc = "sync-list"
    /\ Ends(IF reply.err # NoError
            THEN [resp |-> Nil,
                  err |-> Wrapped("failed to sync calendar list", reply.err)]
            ELSE SyncListLoop(reply.ms.Responses, 1, path,
                              [NextSyncToken |-> reply.ms.SyncToken,
                               UpdatedCalendars |-> <<>>,
                               DeletedCalendars |-> <<>>]))
    /\ ms' = reply.ms
    /\ UNCHANGED <<path, requests, query, startCutoff, idx, ret, pendingPaths,
                   pendingObjects, fetchedObjects>>
    /\ UNCHANGED rangeVars
    /\ UNCHANGED parseVars

(***************************************************************************)
(* FindCurrentUserPrincipal, FindCalendarHomeSet and UpdateCalendar        *)
(***************************************************************************)
\* the call, up to the PROPFIND of depth zero it sends
FindCurrentUserPrincipal ==
    /\ pc = "idle"
    /\ path' = ""
    /\ requests' = Append(requests, [kind |-> "propfind", path |-> "", depth |-> 0,
                                     props |-> {"current-user-principal"}])
    /\ pc' = "find-principal"
    /\ UNCHANGED <<result, syncVars, rangeVars, parseVars>>

\* c.ic.PropFindFlat returns reply = [err, prop], and the call returns a
\* path and an error; prop is what resp.DecodeProp makes of the answer,
\* [err, Unauthenticated, Path]
FindCurrentUserPrincipalReturns(reply) ==
    /\ pc = "find-principal"
    /\ result' = IF reply.err # NoError THEN [resp |-> Some(""), err |-> reply.err]
                 ELSE IF reply.prop.err # NoError
                 THEN [resp |-> Some(""), err |-> reply.prop.err]
                 ELSE IF reply.prop.Unauthenticated
                 THEN [resp |-> Some(""), err |-> Errorf("webdav: unauthenticated")]
                 ELSE [resp |-> Some(reply.prop.Path), err |-> NoError]
    /\ pc' = "done"
    /\ UNCHANGED <<path, requests, syncVars, rangeVars, parseVars>>

\* the call, up to the PROPFIND of depth zero it sends
FindCalendarHomeSet(principal) ==
    /\ pc = "idle"
    /\ path' = principal
    /\ requests' = Append(requests, [kind |-> "propfind", path |-> principal, depth |-> 0,
                                     props |-> {"calendar-home-set"}])
    /\ pc' = "find-home-set"
    /\ UNCHANGED <<result, syncVars, rangeVars, parseVars>>

\* c.ic.PropFindFlat returns reply = [err, prop], and the call returns a
\* path and an error
FindCalendarHomeSetReturns(reply) ==
    /\ pc = "find-home-set"
    /\ result' = IF reply.err # NoError THEN [resp |-> Some(""), err |-> reply.err]
                 ELSE IF reply.prop.err # NoError
                 THEN [resp |-> Some(""), err |-> reply.prop.err]
                 ELSE [resp |-> Some(reply.prop.Path), err |-> NoError]
    /\ pc' = "done"
    /\ UNCHANGED <<path, requests, syncVars, rangeVars, parseVars>>

\* the fields of UpdateCalendarOptions in the order UpdateCalendar reads
\* them, the property each one sets and the message of its encoding error
UpdateFields == <<"Name", "Description", "Color", "Timezone">>

UpdateProps ==
    [Name |-> "displayname", Description |-> "calendar-description",
     Color |-> "calendar-color", Timezone |-> "calendar-timezone"]

EncodeMessages ==
    [Name |-> "caldav: failed to encode display name",
     Description |-> "caldav: failed to encode calendar description",
     Color |-> "caldav: failed to encode calendar color",
     Timezone |-> "caldav: failed to encode calendar timezone"]

\* setProp.Raw built from the fields of options that are not nil, from
\* field k on: [set, err]; failing is the field whose value
\* internal.EncodeRawXMLElement does not encode ("" when it encodes all)
RECURSIVE SetProp(_, _, _, _)
SetProp(options, failing, k, set) ==
    IF k > Len(UpdateFields) THEN [set |-> set, err |-> NoError]
    ELSE LET f == UpdateFields[k]
         IN  IF options[f] = Nil THEN SetProp(options, failing, k + 1, set)
             ELSE IF failing = f
             THEN [set |-> set, err |-> Wrapped(EncodeMessages[f], EncodeError)]
             ELSE SetProp(options, failing, k + 1,
                          Append(set, [name |-> UpdateProps[f], value |-> options[f][1]]))

\* UpdateCalendar up to its request: [set, err]; e is what
\* c.ic.NewXMLRequest returns
PropertyUpdate(options, failing, e) ==
    IF options = Nil
    THEN [set |-> <<>>, err |-> Errorf("caldav: UpdateCalendarOptions cannot be nil")]
    ELSE LET r == SetProp(options[1], failing, 1, <<>>)
         IN  IF r.err # NoError THEN r
             ELSE IF r.set = <<>>
             THEN [set |-> <<>>, err |-> Errorf("caldav: no properties to update")]
             ELSE IF e # NoError
             THEN [set |-> r.set,
                   err |-> Wrapped("caldav: failed to create PROPPATCH request", e)]
             ELSE r

\* the call, up to the PROPPATCH it sends
UpdateCalendar(p, options, failing, e) ==
    /\ pc = "idle"
    /\ path' = p
    /\ argument' = <<p, options>>
    /\ LET r == PropertyUpdate(options, failing, e)
       IN  IF r.err # NoError
           THEN /\ result' = [resp |-> Nil, err |-> r.err]
                /\ pc' = "done"
                /\ UNCHANGED requests
           ELSE /\ requests' = Append(requests,
                                      [kind |-> "proppatch", path |-> p, set |-> r.set])
                /\ pc' = "update-calendar"
                /\ UNCHANGED result
    /\ UNCHANGED <<payload, unfolded, extracted, returned, syncVars, rangeVars>>

\* propstat.Status.Err(): the status of a propstat element as an error
StatusErr(status) == IF status = StatusOK THEN NoError ELSE HTTPError(status)

\* the error of the first propstat element of resp that has one
RECURSIVE PropStatErr(_, _)
PropStatErr(propstats, k) ==
    IF k > Len(propstats) THEN NoError
    ELSE IF StatusErr(propstats[k]) # NoError THEN StatusErr(propstats[k])
    ELSE PropStatErr(propstats, k + 1)

\* the error UpdateCalendar finds in the answer reply = [err, ms] to its
\* PROPPATCH, NoError when it finds none; an entry of it is
\* [status, propstats], propstats the statuses of its propstat elements
PropPatchError(reply) ==
    IF reply.err # NoError THEN Wrapped("caldav: PROPPATCH request failed", reply.err)
    ELSE IF Len(reply.ms.Responses) # 1
    THEN Errorf("caldav: expected 1 response, got " \o ToString(Len(reply.ms.Responses)))
    ELSE IF Err(reply.ms.Responses[1]) # NoError
    THEN Wrapped("caldav: property update failed", Err(reply.ms.Responses[1]))
    ELSE IF PropStatErr(reply.ms.Responses[1].propstats, 1) # NoError
    THEN Wrapped("caldav: property update failed",
                 PropStatErr(reply.ms.Responses[1].propstats, 1))
    ELSE NoError

\* c.ic.DoMultiStatus returns reply: UpdateCalendar returns an error, or
\* c.GetCalendar(ctx, path) sends its PROPFIND
PropPatchAnswers(reply) ==
    /\ pc = "update-calendar"
    /\ IF PropPatchError(reply) # NoError
       THEN /\ result' = [resp |-> Nil, err |-> PropPatchError(reply)]
            /\ pc' = "done"
            /\ UNCHANGED requests
       ELSE /\ requests' = Append(requests, [kind |-> "propfind", path |-> path,
                                             depth |-> 0, props |-> calendarPropFind])
            /\ pc' = "update-get"
            /\ UNCHANGED result
    /\ UNCHANGED <<path, syncVars, rangeVars, parseVars>>

\* what UpdateCalendar returns once its GetCalendar returned r
UpdateResult(r) ==
    IF r.err = Panic \/ r.err = NoError THEN r
    ELSE [resp |-> Nil, err |-> Wrapped("caldav: failed to fetch updated calendar", r.err)]

\* c.ic.PropFindFlat returns reply to GetCalendar, and UpdateCalendar returns
UpdateCalendarReturns(reply) ==
    /\ pc = "update-get"
    /\ Ends(UpdateResult(GetCalendarOutcome(path, reply)))
    /\ UNCHANGED <<path, requests, syncVars, rangeVars, parseVars>>

\* the most entries of an answer that lists calendars
MaxCalendars == 2

HomePath == "/home/"

\* a response entry for a collection with a max-resource-size
SizedEntry(href, rtype, size) == [CollectionEntry(href, rtype) EXCEPT !.maxsize = size]

\* the entries of the answers about the calendars of HomePath: the home set
\* itself, calendars with a positive, a zero and a negative size, one without
\* a resource type, one that does not decode, a resource that is no calendar
\* and does not decode, an entry without properties and one that is gone
HomeEntries ==
    { SizedEntry("/home", "other", 0),
      SizedEntry("/home/work/", "calendar", 1000),
      SizedEntry("/home/zero/", "calendar", 0),
      SizedEntry("/home/neg/", "calendar", 0 - 1),
      SizedEntry("/home/bare/", "none", 0 - 5),
      [SizedEntry("/home/bad/", "calendar", 10) EXCEPT !.bad = "max-resource-size"],
      [SizedEntry("/home/file/", "other", 0) EXCEPT !.bad = "max-resource-size"],
      [SizedEntry("/home/empty/", "none", 0) EXCEPT !.props = FALSE],
      [SizedEntry("/home/gone/", "calendar", 10) EXCEPT !.status = StatusNotFound] }

\* what the transport returns for a request answered with a multistatus
MultistatusReplies(entries, n) ==
    { [err |-> e, ms |-> NoResponse] : e \in TransportErrors }
    \cup { [err |-> NoError, ms |-> Multistatus(es)] : es \in SeqsUpTo(entries, n) }

\* what the transport returns for a PROPFIND of depth zero
FlatReplies ==
    { [err |-> e, resp |-> SizedEntry("", "none", 0)] : e \in TransportErrors }
    \cup { [err |-> NoError, resp |-> r] : r \in HomeEntries }

\* the answers to SyncCalendar on CalPath in which the collection itself has
\* a positive and a negative size
SizeEntries ==
    { SizedEntry("/cal/", "calendar", 1000),
      SizedEntry("/cal", "calendar", 0 - 1),
      ObjectEntry(PathA, PEndAfter, ModAfter, "a1"),
      ObjectEntry(PathB, <<>>, ModAfter, "b1") }

SizeAnswers == {Multistatus(es) : es \in SeqsUpTo(SizeEntries, MaxCalendars)}

\* what c.ic.PropFindFlat and resp.DecodeProp return for the PROPFIND of a
\* principal or of a home set: a failure of the transport, a property that
\* does not decode, a path, and a principal that is not authenticated
PropReplies ==
    { [err |-> e, prop |-> [err |-> NoError, Unauthenticated |-> FALSE, Path |-> ""]] :
      e \in TransportErrors }
    \cup { [err |-> NoError, prop |-> p] :
           p \in { [err |-> DecodeError, Unauthenticated |-> FALSE, Path |-> ""],
                   [err |-> NoError, Unauthenticated |-> FALSE, Path |-> "/principals/me/"],
                   [err |-> NoError, Unauthenticated |-> FALSE, Path |-> HomePath],
                   [err |-> NoError, Unauthenticated |-> TRUE, Path |-> ""] } }

\* the options of UpdateCalendar: none, no field, one field, the empty
\* string that removes a property, and every field
NoUpdate == [Name |-> Nil, Description |-> Nil, Color |-> Nil, Timezone |-> Nil]

UpdateOptions ==
    { Nil, Some(NoUpdate),
      Some([NoUpdate EXCEPT !.Name = Some("Work")]),
      Some([NoUpdate EXCEPT !.Description = Some("")]),
      Some([Name |-> Some("Work"), Description |-> Some("at work"),
            Color |-> Some("#ff0000"), Timezone |-> Some("Europe/Paris")]) }

\* the entries of the answer to a PROPPATCH: every property set, one
\* property refused, and a collection that is gone
PropPatchEntries ==
    { [status |-> StatusOK, propstats |-> <<StatusOK>>],
      [status |-> StatusOK, propstats |-> <<StatusOK, 403>>],
      [status |-> StatusOK, propstats |-> <<>>],
      [status |-> StatusNotFound, propstats |-> <<>>] }

PropPatchReplies ==
    { [err |-> e, ms |-> NoResponse] : e \in TransportErrors }
    \cup { [err |-> NoError, ms |-> Multistatus(es)] :
           es \in SeqsUpTo(PropPatchEntries, MaxCalendars) }

CalendarsNext ==
    \/ FindCurrentUserPrincipal
    \/ \E r \in PropReplies : FindCurrentUserPrincipalReturns(r)
    \/ \E p \in {"/principals/me/"} : FindCalendarHomeSet(p)
    \/ \E r \in PropReplies : FindCalendarHomeSetReturns(r)
    \/ \E o \in UpdateOptions, f \in {"", "Name", "Timezone"}, e \in NewRequestErrors :
           UpdateCalendar("/home/work/", o, f, e)
    \/ \E r \in PropPatchReplies : PropPatchAnswers(r)
    \/ \E r \in FlatReplies : UpdateCalendarReturns(r)
    \/ FindCalendars(HomePath)
    \/ pc = "find-calendars"
       /\ \E r \in MultistatusReplies(HomeEntries, MaxCalendars) : FindCalendarsReturns(r)
    \/ \E p \in {HomePath, "/home/work/"} : GetCalendar(p)
    \/ \E r \in FlatReplies : GetCalendarReturns(r)
    \/ \E t \in {"", "token-1"}, n \in {0, 10} : SyncCalendarListWithLimit(HomePath, t, n)
    \/ pc = "sync-list"
       /\ \E r \in MultistatusReplies(HomeEntries, MaxCalendars) : SyncCalendarListReturns(r)

ClientNext ==
    \/ SyncNext(CutoffQueries, SizeAnswers)
    \/ RangeNext
    \/ CalendarsNext
    \/ ObjectsNext

\* the operations of the client that send requests, SyncCalendar on the
\* answers that list calendars
SpecClient == Init /\ [][ClientNext]_vars

(***************************************************************************)
(* The encoding of a filter                                                *)
(*                                                                         *)
(* A CompFilter is [Name, IsNotDefined, Start, End, Props, Comps], a       *)
(* PropFilter [Name, IsNotDefined, Start, End, TextMatch, ParamFilter], a  *)
(* ParamFilter [Name, IsNotDefined, TextMatch]; TextMatch is Nil or Some   *)
(* of [Text, NegateCondition]. The encoded elements hold pointers: Nil,    *)
(* or Some of the value. An encoder returns [v, err].                      *)
(***************************************************************************)
\* the conversion to the element type that is written in UTC
dateWithUTCTime(t) == [type |-> "dateWithUTCTime", t |-> t]

\* the conversion to the element type that is written as "yes" or "no"
negateCondition(b) == [type |-> "negateCondition", b |-> b]

\* &struct{}{} when the flag is set
Marker(flag) == IF flag THEN Some("struct{}") ELSE Nil

\* the time-range element of a filter with the bounds s and e
EncodedRange(s, e) ==
    IF ~IsZero(s) \/ ~IsZero(e)
    THEN Some([Start |-> dateWithUTCTime(s), End |-> dateWithUTCTime(e)])
    ELSE Nil

\* the text-match element of the pointer tm
EncodedMatch(tm) ==
    IF tm # Nil
    THEN Some([Text |-> tm[1].Text,
               NegateCondition |-> negateCondition(tm[1].NegateCondition)])
    ELSE Nil

\* what the encodings rs returned, in order
Values(rs) == [k \in 1..Len(rs) |-> rs[k].v]

\* the error of the first of the encodings rs that failed
FirstError(rs) ==
    IF \A k \in 1..Len(rs) : rs[k].err = NoError THEN NoError
    ELSE rs[CHOOSE k \in 1..Len(rs) :
                /\ rs[k].err # NoError
                /\ \A j \in 1..(k - 1) : rs[j].err = NoError].err

encodeParamFilter(pf) ==
    [v |-> [Name |-> pf.Name, IsNotDefined |-> Marker(pf.IsNotDefined),
            TextMatch |-> EncodedMatch(pf.TextMatch)],
     err |-> NoError]

encodePropFilter(pf) ==
    LET params == [k \in 1..Len(pf.ParamFilter) |-> encodeParamFilter(pf.ParamFilter[k])]
    IN  IF FirstError(params) # NoError THEN [v |-> Nil, err |-> FirstError(params)]
        ELSE [v |-> [Name |-> pf.Name, IsNotDefined |-> Marker(pf.IsNotDefined),
                     TimeRange |-> EncodedRange(pf.Start, pf.End),
                     TextMatch |-> EncodedMatch(pf.TextMatch),
                     ParamFilter |-> Values(params)],
              err |-> NoError]

\* encodeCompFilter with a time range only when both bounds are set
RECURSIVE encodeCompFilterBothBounds(_)
encodeCompFilterBothBounds(cf) ==
    LET props == [k \in 1..Len(cf.Props) |-> encodePropFilter(cf.Props[k])]
        comps == [k \in 1..Len(cf.Comps) |-> encodeCompFilterBothBounds(cf.Comps[k])]
    IN  IF FirstError(props) # NoError THEN [v |-> Nil, err |-> FirstError(props)]
        ELSE IF FirstError(comps) # NoError THEN [v |-> Nil, err |-> FirstError(comps)]
        ELSE [v |-> [Name |-> cf.Name, IsNotDefined |-> Marker(cf.IsNotDefined),
                     TimeRange |-> IF ~IsZero(cf.Start) /\ ~IsZero(cf.End)
                                   THEN EncodedRange(cf.Start, cf.End) ELSE Nil,
                     PropFilters |-> Values(props),
                     CompFilters |-> Values(comps)],
              err |-> NoError]

RECURSIVE encodeCompFilter(_)
encodeCompFilter(cf) ==
    LET props == [k \in 1..Len(cf.Props) |-> encodePropFilter(cf.Props[k])]
        comps == [k \in 1..Len(cf.Comps) |-> encodeCompFilter(cf.Comps[k])]
    IN  IF FirstError(props) # NoError THEN [v |-> Nil, err |-> FirstError(props)]
        ELSE IF FirstError(comps) # NoError THEN [v |-> Nil, err |-> FirstError(comps)]
        ELSE [v |-> [Name |-> cf.Name, IsNotDefined |-> Marker(cf.IsNotDefined),
                     TimeRange |-> EncodedRange(cf.Start, cf.End),
                     PropFilters |-> Values(props),
                     CompFilters |-> Values(comps)],
              err |-> NoError]

(***************************************************************************)
(* The extractor on its own                                                *)
(***************************************************************************)
\* unfoldICSLines is called on the text d
Unfold(d) ==
    /\ pc = "idle"
    /\ payload' = d
    /\ unfolded' = unfoldICSLines(d)
    /\ pc' = "unfolded"
    /\ UNCHANGED <<path, requests, result, extracted, argument, returned,
                   syncVars, rangeVars>>

\* extractEventMetadata is called on the payload d
Extract(d) ==
    /\ pc = "idle"
    /\ payload' = d
    /\ extracted' = extractEventMetadata(d)
    /\ pc' = "extracted"
    /\ UNCHANGED <<path, requests, result, unfolded, argument, returned,
                   syncVars, rangeVars>>

\* the most physical lines a folded content line is split into
MaxPieces == 3

\* what a content line is cut into: the first piece and the pieces that
\* follow a fold, some of which begin with white space of their own
FirstPieces == {Bytes("DESCRIPTION:ab"), Bytes("SUMMARY:x ")}

LaterPieces == {Bytes("cd"), Bytes(" cd"), Bytes("\tcd"), Bytes("c d")}

\* a line cut into pieces, folded with the white space marker after the line
\* break eol
FoldInputs ==
    [pieces : {<<f>> \o r : f \in FirstPieces, r \in SeqsUpTo(LaterPieces, MaxPieces - 1)},
     marker : {Bytes(" "), Bytes("\t")},
     eol : {Bytes("\n"), Bytes("\r\n")}]

\* the physical lines of the folded line f, from the k-th piece on
RECURSIVE FoldFrom(_, _)
FoldFrom(f, k) ==
    IF k > Len(f.pieces) THEN f.eol
    ELSE (IF k = 1 THEN <<>> ELSE f.eol \o f.marker) \o f.pieces[k] \o FoldFrom(f, k + 1)

Fold(f) == FoldFrom(f, 1)

\* the content line that was folded
Logical(f) == JoinFrom(f.pieces, 1, <<>>)

\* VEVENT blocks, with what their lines hold: a start, an end, an RRULE
Block(lines, hasStart, hasEnd, hasRRule) ==
    [lines |-> lines, start |-> hasStart, end |-> hasEnd, rrule |-> hasRRule]

Blocks ==
    { Block(<<Bytes("DTSTART:20240101T100000Z"), Bytes("DTEND:20240101T110000Z")>>, TRUE, TRUE, FALSE),
      Block(<<Bytes("DTSTART:20240301T100000Z"), Bytes("DTEND:20240301T110000Z")>>, TRUE, TRUE, FALSE),
      Block(<<Bytes("DTSTART:20240101T100000Z"),
              Bytes("RRULE:FREQ=DAILY;UNTIL=20240201T000000Z")>>, TRUE, FALSE, TRUE),
      Block(<<Bytes("RRULE:FREQ=WEEKLY")>>, FALSE, FALSE, TRUE),
      Block(<<Bytes("DTEND;VALUE=DATE:20231231")>>, FALSE, TRUE, FALSE),
      Block(<<Bytes("SUMMARY:x"), Bytes("DTSTART:tomorrow")>>, FALSE, FALSE, FALSE) }

\* the text of the blocks bs from the k-th on
RECURSIVE EventsFrom(_, _)
EventsFrom(bs, k) ==
    IF k > Len(bs) THEN <<>>
    ELSE Bytes("BEGIN:VEVENT\r\n") \o JoinFrom(bs[k].lines, 1, Bytes("\r\n")) \o Bytes("\r\nEND:VEVENT\r\n")
         \o EventsFrom(bs, k + 1)

\* a calendar object holding the blocks bs
Calendar(bs) == Bytes("BEGIN:VCALENDAR\r\n") \o EventsFrom(bs, 1) \o Bytes("END:VCALENDAR\r\n")

Twice(s) == s \o s

\* 2^k copies of s
RECURSIVE Doubled(_, _)
Doubled(s, k) == IF k = 0 THEN s ELSE Twice(Doubled(s, k - 1))

\* a content line of n bytes
LongLine(n) == Bytes("X-A:") \o SubSeq(Doubled(Bytes("A"), 16), 1, n - 4)

\* the payloads given to extractEventMetadata, with what a VEVENT of theirs
\* holds: nothing, events of one block and of two, properties outside any
\* VEVENT, and an event with a content line at and below the scanner's limit
EventInputs ==
    { [data |-> <<>>, start |-> FALSE, end |-> FALSE, rrule |-> FALSE],
      [data |-> Calendar(<<>>), start |-> FALSE, end |-> FALSE, rrule |-> FALSE],
      [data |-> Bytes("DTSTART:20240101T100000Z\r\nRRULE:FREQ=DAILY\r\n") \o Calendar(<<>>),
       start |-> FALSE, end |-> FALSE, rrule |-> FALSE] }
    \cup { [data |-> Calendar(<<b>>), start |-> b.start, end |-> b.end,
            rrule |-> b.rrule] : b \in Blocks }
    \cup { [data |-> Calendar(<<a, b>>), start |-> a.start \/ b.start,
            end |-> a.end \/ b.end, rrule |-> a.rrule \/ b.rrule] :
            a \in Blocks, b \in Blocks }
    \cup { [data |-> Calendar(<<Block(<<Bytes("DTSTART:20240101T100000Z"), LongLine(n)>>,
                                      TRUE, FALSE, FALSE)>>),
            start |-> TRUE, end |-> FALSE, rrule |-> FALSE] :
            n \in {MaxScanTokenSize - 1, MaxScanTokenSize} }

\* parseICSTime is called on value
ParseTime(value) ==
    /\ pc = "idle"
    /\ argument' = <<value>>
    /\ returned' = parseICSTime(value)
    /\ pc' = "parsed"
    /\ UNCHANGED <<path, requests, result, payload, unfolded, extracted,
                   syncVars, rangeVars>>

\* the dates and clocks a time value is written with, and whether they are
\* ones of the calendar and of the day
DateTexts ==
    { [text |-> Bytes("20240101"), ok |-> TRUE, y |-> 2024, m |-> 1, d |-> 1],
      [text |-> Bytes("20240229"), ok |-> TRUE, y |-> 2024, m |-> 2, d |-> 29],
      [text |-> Bytes("20230229"), ok |-> FALSE, y |-> 2023, m |-> 2, d |-> 29],
      [text |-> Bytes("20231301"), ok |-> FALSE, y |-> 2023, m |-> 13, d |-> 1],
      [text |-> Bytes("2024010"), ok |-> FALSE, y |-> 2024, m |-> 1, d |-> 0] }

ClockTexts ==
    { [text |-> <<>>, ok |-> TRUE, given |-> FALSE, hh |-> 0, mm |-> 0, ss |-> 0],
      [text |-> Bytes("T100000"), ok |-> TRUE, given |-> TRUE, hh |-> 10, mm |-> 0, ss |-> 0],
      [text |-> Bytes("T235959"), ok |-> TRUE, given |-> TRUE, hh |-> 23, mm |-> 59, ss |-> 59],
      [text |-> Bytes("T250000"), ok |-> FALSE, given |-> TRUE, hh |-> 25, mm |-> 0, ss |-> 0],
      [text |-> Bytes("T1000"), ok |-> FALSE, given |-> TRUE, hh |-> 10, mm |-> 0, ss |-> 0] }

\* what follows the seconds: nothing, and a fraction of a second written
\* with a period and with a comma
FractionTexts == {<<>>, Bytes(".5"), Bytes(",5")}

\* the form the text date, clock, fraction, suffix has: a UTC timestamp
\* (YYYYMMDDTHHMMSSZ), a floating timestamp (YYYYMMDDTHHMMSS), a date
\* (YYYYMMDD), or none of them
FormOf(date, clock, fraction, suffix) ==
    IF ~(date.ok /\ clock.ok) \/ fraction # <<>> THEN "none"
    ELSE IF clock.given /\ suffix = Bytes("Z") THEN "utc"
    ELSE IF clock.given /\ suffix = <<>> THEN "floating"
    ELSE IF ~clock.given /\ suffix = <<>> THEN "date"
    ELSE "none"

\* what a time value is written between, and whether it is white space:
\* nothing, a space and a tab, a form feed and a vertical tab, a carriage
\* return and a line feed, a no-break space (U+00A0) and an em space
\* (U+2003), a next line (U+0085) and an ideographic space (U+3000), and a
\* zero width space (U+200B), which is no white space
TimePads ==
    { [pre |-> <<>>, post |-> <<>>, space |-> TRUE],
      [pre |-> Bytes(" "), post |-> Bytes("\t"), space |-> TRUE],
      [pre |-> Bytes("\f"), post |-> <<11>>, space |-> TRUE],
      [pre |-> Bytes("\r\n"), post |-> Bytes("\n "), space |-> TRUE],
      [pre |-> <<194, 160>>, post |-> <<226, 128, 131>>, space |-> TRUE],
      [pre |-> <<194, 133>>, post |-> <<227, 128, 128>>, space |-> TRUE],
      [pre |-> <<226, 128, 139>>, post |-> <<>>, space |-> FALSE] }

\* the form of the value between the pad
PaddedFormOf(date, clock, fraction, suffix, pad) ==
    IF pad.space THEN FormOf(date, clock, fraction, suffix) ELSE "none"

\* the values given to parseICSTime, each with its form and the instant it
\* denotes
TimeInputs ==
    { [text |-> pad.pre \o date.text \o clock.text \o fraction \o suffix \o pad.post,
       bare |-> date.text \o clock.text \o fraction \o suffix,
       fraction |-> fraction,
       form |-> PaddedFormOf(date, clock, fraction, suffix, pad),
       t |-> IF PaddedFormOf(date, clock, fraction, suffix, pad) = "none" THEN ZeroTime
             ELSE Date(date.y, date.m, date.d, clock.hh, clock.mm, clock.ss, 0)] :
      date \in DateTexts, clock \in ClockTexts, fraction \in FractionTexts,
      suffix \in {<<>>, Bytes("Z"), Bytes("z"), Bytes("ZZ")}, pad \in TimePads }

\* the most components of an RRULE value
MaxRRuleParts == 2

\* components of an RRULE value, with what each is: an UNTIL that parses
\* (and the instant it gives), an UNTIL that does not, a COUNT with an
\* integer, a COUNT without, a component without '=', and other keys, one of
\* them u, n, t, U+0131 (a dotless i), l; a no-break space (U+00A0) stands
\* before the value of the last UNTIL and after that of the last COUNT
RRuleTexts ==
    { [text |-> Bytes("FREQ=DAILY"), kind |-> "other", t |-> ZeroTime],
      [text |-> Bytes("INTERVAL=2"), kind |-> "other", t |-> ZeroTime],
      [text |-> Bytes("BYDAY"), kind |-> "bare", t |-> ZeroTime],
      [text |-> Bytes("UNTIL=20240201T000000Z"), kind |-> "until",
       t |-> Date(2024, 2, 1, 0, 0, 0, 0)],
      [text |-> (Bytes(" until\f=") \o <<11>> \o Bytes("20250101 ")), kind |-> "until",
       t |-> Date(2025, 1, 1, 0, 0, 0, 0)],
      [text |-> Bytes("UNTIL=someday"), kind |-> "other", t |-> ZeroTime],
      [text |-> Bytes("COUNT=10"), kind |-> "count", t |-> ZeroTime],
      [text |-> Bytes("COUNT=ten"), kind |-> "other", t |-> ZeroTime],
      [text |-> Bytes("unt") \o <<196, 177>> \o Bytes("l=20200101T000000Z"), kind |-> "other",
       t |-> ZeroTime],
      [text |-> Bytes("UNTIL=") \o <<194, 160>> \o Bytes("20260101"), kind |-> "until",
       t |-> Date(2026, 1, 1, 0, 0, 0, 0)],
      [text |-> Bytes("COUNT=5") \o <<194, 160>>, kind |-> "count", t |-> ZeroTime] }

RECURSIVE TextsFrom(_, _)
TextsFrom(parts, k) ==
    IF k > Len(parts) THEN <<>> ELSE <<parts[k].text>> \o TextsFrom(parts, k + 1)

\* an event whose RRULE value is made of the components parts
RRuleEvent(parts) ==
    Calendar(<<Block(<<Bytes("DTSTART:20240101T100000Z"),
                       Bytes("RRULE:") \o JoinFrom(TextsFrom(parts, 1), 1, Bytes(";"))>>,
                     TRUE, FALSE, TRUE)>>)

\* the payloads whose RRULE is read, with the components they are made of
RRuleInputs ==
    { [data |-> RRuleEvent(parts), parts |-> parts] :
      parts \in SeqsUpTo(RRuleTexts, MaxRRuleParts) \ {<<>>} }

\* sameCollectionPath is called on a and b
SamePath(a, b) ==
    /\ pc = "idle"
    /\ argument' = <<a, b>>
    /\ returned' = sameCollectionPath(a, b)
    /\ pc' = "compared"
    /\ UNCHANGED <<path, requests, result, payload, unfolded, extracted,
                   syncVars, rangeVars>>

\* the paths that are compared: the empty path, roots of one and two
\* slashes, and collections and members with and without trailing slashes
PathInputs == {"", "/", "//", "/cal", "/cal/", "/cal///", "/cal/a", "/cal/a/", "/cal/b"}

\* what stands outside the VEVENT blocks of a payload: nothing, a bare
\* DTSTART, a VTIMEZONE with a DTSTART and an RRULE, a VTODO with a DTSTART
\* and a DTEND, and a DTSTART and an RRULE after a line that is no marker,
\* its fourth letter being U+0131 (a dotless i), and before an end marker
OutsideTexts ==
    { <<>>,
      Bytes("BEG") \o <<196, 177>>
      \o Bytes("N:VEVENT\r\nDTSTART:20200101T000000Z\r\nRRULE:FREQ=DAILY\r\nEND:VEVENT\r\n"),
      Bytes("DTSTART:20200101T000000Z\r\n"),
      Bytes("BEGIN:VTIMEZONE\r\nDTSTART:19701025T030000\r\nRRULE:FREQ=YEARLY;UNTIL=20300101T000000Z\r\nEND:VTIMEZONE\r\n"),
      Bytes("BEGIN:VTODO\r\nDTSTART:20200101T000000Z\r\nDTEND:20200102T000000Z\r\nEND:VTODO\r\n") }

\* the ways the markers of a VEVENT block are written
MarkerTexts ==
    { <<Bytes("BEGIN:VEVENT"), Bytes("END:VEVENT")>>, <<Bytes("begin:vevent"), Bytes("end:vevent")>>,
      <<Bytes("Begin:VEvent"), Bytes("End:Vevent")>> }

\* what a VEVENT block holds, with the result of the extraction it is to
\* give: a start and an end, nothing of interest, an open-ended rule
InsideTexts ==
    { [text |-> Bytes("DTSTART:20240101T100000Z\r\nDTEND:20240101T110000Z\r\n"),
       ok |-> TRUE,
       meta |-> [EmptyMeta EXCEPT !.start = Date(2024, 1, 1, 10, 0, 0, 0),
                                  !.end = Date(2024, 1, 1, 11, 0, 0, 0)]],
      [text |-> Bytes("SUMMARY:x\r\n"), ok |-> FALSE, meta |-> EmptyMeta],
      [text |-> Bytes("RRULE:FREQ=WEEKLY\r\n"), ok |-> TRUE,
       meta |-> [EmptyMeta EXCEPT !.recurring = TRUE, !.recurrenceOpen = TRUE]] }

\* payloads of one VEVENT block, or none, with text before and after it
OutsideInputs ==
    { [data |-> Bytes("BEGIN:VCALENDAR\r\n") \o pre \o m[1] \o Bytes("\r\n") \o in.text \o m[2]
                \o Bytes("\r\n") \o post \o Bytes("END:VCALENDAR\r\n"),
       pre |-> pre, post |-> post, markers |-> m, ok |-> in.ok, meta |-> in.meta] :
      pre \in OutsideTexts, post \in OutsideTexts, m \in MarkerTexts, in \in InsideTexts }
    \cup
    { [data |-> Bytes("BEGIN:VCALENDAR\r\n") \o pre \o post \o Bytes("END:VCALENDAR\r\n"),
       pre |-> pre, post |-> post, markers |-> <<<<>>, <<>>>>, ok |-> FALSE,
       meta |-> EmptyMeta] :
      pre \in OutsideTexts, post \in OutsideTexts }

\* the DTSTART and DTEND lines of an event, with the instant each gives (the
\* zero time when the line is absent or its value has no accepted format:
\* a value with a fraction of a second has none, a value between white space
\* has the format of the value)
StartLines ==
    { [line |-> <<>>, t |-> ZeroTime, bad |-> FALSE],
      [line |-> (Bytes("DTSTART:\f20240101T100000Z") \o <<11>>), t |-> Date(2024, 1, 1, 10, 0, 0, 0),
       bad |-> FALSE],
      [line |-> Bytes("DTSTART:") \o <<194, 160>> \o Bytes("20240105T100000Z") \o <<194, 160>>,
       t |-> Date(2024, 1, 5, 10, 0, 0, 0), bad |-> FALSE],
      [line |-> Bytes("DTSTART:2024-01-01T10:00:00Z"), t |-> ZeroTime, bad |-> TRUE],
      [line |-> Bytes("DTSTART:20240101T100000.5Z"), t |-> ZeroTime, bad |-> TRUE],
      [line |-> Bytes("DTSTART;TZID=Europe/Paris:20240101T100000+0100"), t |-> ZeroTime, bad |-> TRUE] }

EndLines ==
    { [line |-> <<>>, t |-> ZeroTime, bad |-> FALSE],
      [line |-> Bytes("DTEND:20240102"), t |-> Date(2024, 1, 2, 0, 0, 0, 0), bad |-> FALSE],
      [line |-> Bytes("DTEND:20240102T"), t |-> ZeroTime, bad |-> TRUE],
      [line |-> Bytes("DTEND;VALUE=DATE:tomorrow"), t |-> ZeroTime, bad |-> TRUE] }

\* the RRULE lines of an event, with whether the rule is found, the instant
\* of its UNTIL, whether an UNTIL or a COUNT bounds it, and whether one of its
\* values has no accepted format
RuleLines ==
    { [line |-> <<>>, found |-> FALSE, t |-> ZeroTime, bounded |-> FALSE, bad |-> FALSE],
      [line |-> Bytes("RRULE:FREQ=DAILY"), found |-> TRUE, t |-> ZeroTime, bounded |-> FALSE,
       bad |-> FALSE],
      [line |-> Bytes("RRULE:FREQ=DAILY;UNTIL=20240301T000000Z"), found |-> TRUE,
       t |-> Date(2024, 3, 1, 0, 0, 0, 0), bounded |-> TRUE, bad |-> FALSE],
      [line |-> Bytes("RRULE:FREQ=DAILY;UNTIL=2024-03-01"), found |-> TRUE, t |-> ZeroTime,
       bounded |-> FALSE, bad |-> TRUE],
      [line |-> Bytes("RRULE:FREQ=DAILY;COUNT=3"), found |-> TRUE, t |-> ZeroTime,
       bounded |-> TRUE, bad |-> FALSE],
      [line |-> Bytes("RRULE:FREQ=DAILY;COUNT=3.5"), found |-> TRUE, t |-> ZeroTime,
       bounded |-> FALSE, bad |-> TRUE],
      [line |-> Bytes("RRULE:FREQ=DAILY;COUNT=5") \o <<194, 160>>, found |-> TRUE,
       t |-> ZeroTime, bounded |-> TRUE, bad |-> FALSE],
      [line |-> Bytes("RRULE:FREQ=DAILY;UNTIL=20240301T000000,5"), found |-> TRUE,
       t |-> ZeroTime, bounded |-> FALSE, bad |-> TRUE],
      [line |-> Bytes("RRULE:UNTIL=20240301T0000;COUNT=3"), found |-> TRUE, t |-> ZeroTime,
       bounded |-> TRUE, bad |-> TRUE],
      [line |-> Bytes("RRULE:COUNT=three;UNTIL=20240301T000000Z"), found |-> TRUE,
       t |-> Date(2024, 3, 1, 0, 0, 0, 0), bounded |-> TRUE, bad |-> TRUE] }

\* an event of the lines that are there, in the order given
LinesEvent(lines) == Calendar(<<Block(SelectSeq(lines, LAMBDA l : l # <<>>), FALSE, FALSE, FALSE)>>)

\* events of every choice of the three lines, in one order and in the other
FormatInputs ==
    { [data |-> LinesEvent(IF forward THEN <<s.line, e.line, r.line>>
                           ELSE <<r.line, e.line, s.line>>),
       start |-> s, end |-> e, rule |-> r] :
      s \in StartLines, e \in EndLines, r \in RuleLines, forward \in BOOLEAN }

\* encodeCompFilter is called on the filter cf
EncodeFilter(cf) ==
    /\ pc = "idle"
    /\ argument' = <<cf>>
    /\ returned' = encodeCompFilter(cf)
    /\ pc' = "encoded"
    /\ UNCHANGED <<path, requests, result, payload, unfolded, extracted,
                   syncVars, rangeVars>>

\* the most child filters of a component filter
MaxFilterChildren == 2

ParamFilters ==
    { [Name |-> "PARTSTAT", IsNotDefined |-> FALSE,
       TextMatch |-> Some([Text |-> "NEEDS-ACTION", NegateCondition |-> FALSE])],
      [Name |-> "TZID", IsNotDefined |-> TRUE, TextMatch |-> Nil] }

PropFilters ==
    { [Name |-> "ATTENDEE", IsNotDefined |-> FALSE, Start |-> ZeroTime, End |-> ZeroTime,
       TextMatch |-> Some([Text |-> "mailto:a@example.com", NegateCondition |-> TRUE]),
       ParamFilter |-> ps] : ps \in SeqsUpTo(ParamFilters, 2) }
    \cup
    { [Name |-> "COMPLETED", IsNotDefined |-> TRUE, Start |-> ZeroTime, End |-> Day(1),
       TextMatch |-> Nil, ParamFilter |-> <<>>] }

\* the property filters of a component filter: none, one, and two in both
\* orders
PropLists ==
    LET a == [Name |-> "COMPLETED", IsNotDefined |-> TRUE, Start |-> ZeroTime,
              End |-> Day(1), TextMatch |-> Nil, ParamFilter |-> <<>>]
    IN  {<<>>} \cup {<<p>> : p \in PropFilters}
        \cup {<<a, p>> : p \in PropFilters} \cup {<<p, a>> : p \in PropFilters}

\* the bounds of a filter: none, both, the start alone, the end alone
FilterBounds ==
    { <<ZeroTime, ZeroTime>>, <<Day(0), Day(1)>>, <<Day(0), ZeroTime>>,
      <<ZeroTime, Day(1)>> }

\* component filters without children
LeafFilters ==
    { [Name |-> n, IsNotDefined |-> d, Start |-> b[1], End |-> b[2], Props |-> ps,
       Comps |-> <<>>] :
      n \in {"VEVENT"}, d \in BOOLEAN, b \in FilterBounds, ps \in PropLists }

\* the component filters that are children: an event with an alarm that is
\* not defined, and leaves
ChildFilters ==
    { [Name |-> "VEVENT", IsNotDefined |-> FALSE, Start |-> Day(0), End |-> Day(1),
       Props |-> <<>>,
       Comps |-> <<[Name |-> "VALARM", IsNotDefined |-> TRUE, Start |-> ZeroTime,
                    End |-> ZeroTime, Props |-> <<>>, Comps |-> <<>>]>>],
      [Name |-> "VTODO", IsNotDefined |-> TRUE, Start |-> ZeroTime, End |-> ZeroTime,
       Props |-> <<>>, Comps |-> <<>>],
      [Name |-> "VEVENT", IsNotDefined |-> FALSE, Start |-> ZeroTime, End |-> Day(1),
       Props |-> <<[Name |-> "COMPLETED", IsNotDefined |-> TRUE, Start |-> ZeroTime,
                    End |-> Day(1), TextMatch |-> Nil, ParamFilter |-> <<>>]>>,
       Comps |-> <<>>] }

\* the filters that are encoded: leaves, and calendars of up to
\* MaxFilterChildren children
FilterInputs ==
    LeafFilters
    \cup { [Name |-> "VCALENDAR", IsNotDefined |-> FALSE, Start |-> b[1], End |-> b[2],
            Props |-> <<>>, Comps |-> cs] :
          b \in FilterBounds, cs \in SeqsUpTo(ChildFilters, MaxFilterChildren) }

\* normalizeCollectionPath is called on p
Normalize(p) ==
    /\ pc = "idle"
    /\ argument' = <<p>>
    /\ returned' = normalizeCollectionPath(p)
    /\ pc' = "normalized"
    /\ UNCHANGED <<path, requests, result, payload, unfolded, extracted,
                   syncVars, rangeVars>>

\* shouldIncludeForStartCutoff is called on the pointer co and the cutoff
ShouldInclude(co, cutoff) ==
    /\ pc = "idle"
    /\ argument' = <<co, cutoff>>
    /\ payload' = (IF co = Nil THEN <<>> ELSE co[1].Data)
    /\ extracted' = (IF co = Nil THEN extracted ELSE extractEventMetadata(co[1].Data))
    /\ returned' = shouldIncludeForStartCutoff(co, cutoff)
    /\ pc' = "decided"
    /\ UNCHANGED <<path, requests, result, unfolded, syncVars, rangeVars>>

\* the cutoffs of the decision: before the events, between them, after them
\* and far after them
DecisionCutoffs ==
    {Cutoff, Date(2024, 1, 15, 0, 0, 0, 0), Date(2025, 6, 1, 0, 0, 0, 0),
     Date(2100, 1, 1, 0, 0, 0, 0)}

\* the objects decided on: no object, and the events whose RRULE is read,
\* last modified before every cutoff or at an unknown time
DecisionObjects ==
    {Nil} \cup {Some(Fetched(PathA, r.data, mod, "d1")) :
                   r \in RRuleInputs, mod \in {ZeroTime, ModBefore}}

ExtractNext ==
    \/ \E f \in FoldInputs : Unfold(Fold(f))
    \/ \E c \in EventInputs : Extract(c.data)
    \/ \E v \in TimeInputs : ParseTime(v.text)
    \/ \E r \in RRuleInputs : Extract(r.data)
    \/ \E a \in PathInputs, b \in PathInputs : SamePath(a, b)
    \/ \E co \in DecisionObjects, cutoff \in DecisionCutoffs : ShouldInclude(co, cutoff)
    \/ \E c \in OutsideInputs : Extract(c.data)
    \/ \E c \in FormatInputs : Extract(c.data)
    \/ \E cf \in FilterInputs : EncodeFilter(cf)
    \/ \E p \in PathInputs : Normalize(p)

\* unfoldICSLines and extractEventMetadata alone
SpecExtract == Init /\ [][ExtractNext]_vars

\* the widest range, in days, of the calls whose requests may fail without limit
MaxLiveDays == 3

LiveEnds == {ZeroTime} \cup {Day(k) : k \in 1..MaxLiveDays}

\* the server answers the request that is out
Replies ==
    \/ \E objs \in QueryAnswers : OnceAnswers(objs)
    \/ \E e \in QueryErrors : OnceFails(e)
    \/ \E objs \in QueryAnswers : WindowAnswers(objs)
    \/ \E e \in QueryErrors : WindowFails(e)

LiveNext ==
    \/ \E s \in {ZeroTime, Day(0)}, e \in LiveEnds : CalendarQueryRange(CalPath, s, e)
    \/ Replies

\* CalendarQueryRange against a server that answers every request, and may
\* fail every one of them
SpecRangeLive == Init /\ [][LiveNext]_vars /\ WF_vars(Replies)

(***************************************************************************)
(* Properties of SyncCalendar                                              *)
(***************************************************************************)
\* the call returned a response and no error
Succeeded == pc = "done" /\ result.err = NoError /\ result.resp # Nil

\* the three kinds of entry of a sync-collection response
Gone(e) == e.status = StatusNotFound

IsSelf(e) == e.status = StatusOK /\ sameCollectionPath(e.href, path)

IsObject(e) == e.status = StatusOK /\ ~sameCollectionPath(e.href, path)

\* a collection entry that carries calendar properties
IsCalendar(e) == IsSelf(e) /\ e.rtype \notin {"other", "empty"}

HrefsOf(es) == [k \in 1..Len(es) |-> es[k].href]

PathsOf(objs) == [k \in 1..Len(objs) |-> objs[k].Path]

\* the object an entry stands for, under the entry's own path
ObjectOf(e) ==
    [Path |-> e.href, ModTime |-> e.mod, ContentLength |-> e.length,
     ETag |-> e.etag, Data |-> e.data]

\* every object entry of es as an object, in order
Unfiltered(es) ==
    LET objs == SelectSeq(es, IsObject)
    IN  [k \in 1..Len(objs) |-> ObjectOf(objs[k])]

\* the Calendar the entries es leave in the response
CalendarOf(es) ==
    LET cals == SelectSeq(es, IsCalendar)
    IN  IF Len(cals) = 0 THEN Nil
        ELSE Some([Path |-> cals[Len(cals)].href,
                   MaxResourceSize |-> cals[Len(cals)].maxsize])

\* C1: with no cutoff active, a sync that succeeds has put every entry of the
\* response into exactly one place: the 404 entries' paths are Deleted, in
\* order; an entry on the collection's own path is decoded as the Calendar
\* and is in neither list; every other entry is one object of Updated under
\* the entry's own path; so the sizes add up to the number of entries.
SyncClassifiesEveryEntry ==
    (Succeeded /\ IsZero(startCutoff)) =>
        /\ result.resp[1].Deleted = HrefsOf(SelectSeq(ms.Responses, Gone))
        /\ PathsOf(result.resp[1].Updated) = HrefsOf(SelectSeq(ms.Responses, IsObject))
        /\ \A k \in 1..Len(result.resp[1].Updated) :
              ~sameCollectionPath(result.resp[1].Updated[k].Path, path)
        /\ result.resp[1].Calendar = CalendarOf(ms.Responses)
        /\ Len(result.resp[1].Deleted) + Len(result.resp[1].Updated)
              + Len(SelectSeq(ms.Responses, IsSelf)) = Len(ms.Responses)

\* a sync without cutoff of a response with one entry of each kind returned
\* one Calendar, one Deleted path and one Updated object
SyncClassifiedOneOfEach ==
    /\ Succeeded /\ IsZero(startCutoff)
    /\ Len(ms.Responses) = 3
    /\ Len(SelectSeq(ms.Responses, Gone)) = 1
    /\ Len(SelectSeq(ms.Responses, IsCalendar)) = 1
    /\ Len(SelectSeq(ms.Responses, IsObject)) = 1
    /\ result.resp[1].Calendar # Nil
    /\ Len(result.resp[1].Deleted) = 1
    /\ Len(result.resp[1].Updated) = 1

\* C2: a sync with a token and a start time sends no multiget and, when it
\* succeeds, returns in Updated every object entry, unfiltered: the very list
\* a sync with a zero start time returns for the same response.
TokenSuppressesCutoff ==
    /\ (query.SyncToken # "" /\ ~IsZero(query.StartTime)) =>
          \A k \in 1..Len(requests) : requests[k].kind # "multiget"
    /\ (Succeeded /\ (query.SyncToken # "" \/ IsZero(query.StartTime))) =>
          result.resp[1].Updated = Unfiltered(ms.Responses)

\* a sync with a token and a start time returned an object that ends before
\* the start time and one that came without payload
TokenSyncKeptOldAndEmpty ==
    /\ Succeeded
    /\ query.SyncToken # "" /\ ~IsZero(query.StartTime)
    /\ \E k \in 1..Len(result.resp[1].Updated) :
          result.resp[1].Updated[k].Data = PEndBefore
    /\ \E k \in 1..Len(result.resp[1].Updated) :
          result.resp[1].Updated[k].Data = <<>>

\* an entry that makes the call fail: its path does not resolve, for another
\* reason than 404, or one of its properties does not decode
EntryFails(e) ==
    \/ e.status \notin {StatusOK, StatusNotFound}
    \/ /\ e.status = StatusOK
       /\ e.props
       /\ IF sameCollectionPath(e.href, path)
          THEN \/ e.bad = "resourcetype"
               \/ (e.rtype \notin {"other", "empty"} /\ e.bad \in CalendarProps)
          ELSE e.bad \in ObjectProps

\* C3: an error is never returned with a response; a call that returned has
\* returned an error and no response when the sync-collection request failed
\* or an entry failed, and a response only when every entry was processed
\* and, if paths were deferred, the multiget was answered.
FailureReturnsNoResponse ==
    /\ result.err # NoError => result.resp = Nil
    /\ pc = "done" =>
          /\ result.err # NoError \/ result.resp # Nil
          /\ idx = 0 => result.err \in TransportErrors
          /\ (\E k \in 1..Len(ms.Responses) : EntryFails(ms.Responses[k])) =>
                result.err # NoError
    /\ Succeeded =>
          /\ idx = Len(ms.Responses) + 1
          /\ result.resp[1].SyncToken = ms.SyncToken
          /\ (~IsZero(startCutoff) /\ Len(pendingPaths) > 0) =>
                requests[Len(requests)].kind = "multiget"

\* the call returned an error and no response after it had classified entries
FailedAfterClassifying ==
    /\ pc = "done"
    /\ result.resp = Nil
    /\ result.err = ServerError
    /\ idx = 3
    /\ Len(ret.Updated) = 1
    /\ Len(ret.Deleted) = 1

\* the multiget requests sent so far
Multigets == SelectSeq(requests, LAMBDA r : r.kind = "multiget")

\* an object entry that came without payload
IsDeferred(e) == IsObject(e) /\ Len(e.data) = 0

\* C4: at most one multiget is sent, only once the loop over the entries has
\* ended, and it lists the paths of the object entries that came without
\* payload, of which there is at least one, in the order of the response.
BackfillOnceAfterTheLoop ==
    /\ Len(Multigets) <= 1
    /\ Len(Multigets) = 1 =>
          /\ ~IsZero(startCutoff)
          /\ idx = Len(ms.Responses) + 1
          /\ Multigets[1].paths = HrefsOf(SelectSeq(ms.Responses, IsDeferred))
          /\ Len(Multigets[1].paths) > 0

\* a full sync with a cutoff sent one multiget for two deferred paths
BackfillSentForTwoPaths ==
    /\ Succeeded
    /\ ~IsZero(startCutoff)
    /\ Len(Multigets) = 1
    /\ Multigets[1].paths = <<PathB, PathA>>

\* the step in which the backfill multiget is answered and the call returns
BackfillReturns == pc = "multiget" /\ pc' = "done" /\ result'.err = NoError

\* the objects that step appends to Updated
Backfilled == SubSeq(ret'.Updated, Len(ret.Updated) + 1, Len(ret'.Updated))

\* the positions of fetchedObjects' that hold the path p
FetchedAt(p) == {k \in 1..Len(fetchedObjects') : fetchedObjects'[k].Path = p}

\* the object the multiget returned for the path p: the last one with it
FetchedFor(p) == fetchedObjects'[CHOOSE k \in FetchedAt(p) : \A j \in FetchedAt(p) : j <= k]

\* the object of entry e is in Updated (the entries carry distinct ETags)
InUpdated(e) == \E k \in 1..Len(ret.Updated) : ret.Updated[k].ETag = e.etag

\* the entries the loop has decided on their own payload
Decided ==
    {k \in 1..Len(ms.Responses) :
        k < idx /\ IsObject(ms.Responses[k]) /\ Len(ms.Responses[k].data) > 0}

\* the object the backfill decides on for the deferred path p: the object
\* of the sync response, with the payload of the object the multiget
\* returned for p and its modification time, content length and entity tag
\* where they are known, when the multiget returned one
Considered(p) ==
    LET co == pendingObjects[p]
    IN  IF FetchedAt(p) = {} THEN co
        ELSE LET f == FetchedFor(p)
             IN  [Path |-> p,
                  Data |-> f.Data,
                  ModTime |-> IF IsZero(f.ModTime) THEN co.ModTime ELSE f.ModTime,
                  ContentLength |-> IF f.ContentLength = 0 THEN co.ContentLength
                                    ELSE f.ContentLength,
                  ETag |-> IF f.ETag = <<>> THEN co.ETag ELSE f.ETag]

\* the backfill appended the object o to Updated
WasBackfilled(o) == \E i \in 1..Len(Backfilled) : Backfilled[i] = o

\* the step BackfillReturns of a sync with a cutoff
BackfillDecides == BackfillReturns /\ ~IsZero(startCutoff)

\* the payloads of non-recurring events that end at or after the cutoff or,
\* having no end, start at or after it, and those that end or, having no
\* end, start before it
LaterSingles == {PEndAfter, PEndAt, PEndAfterPadded, PStartAfter, PStartAt}

EarlierSingles == {PEndBefore, PEndBeforeStartAfter, PStartBefore}

\* the decision on a non-recurring event with metadata m
ByEndThenStart(m, cutoff) ==
    IF ~IsZero(m.end) THEN ~Before(m.end, cutoff) ELSE ~Before(m.start, cutoff)

NonRecurring(r) == r.ok /\ ~r.meta.recurring

\* entry e, whose payload yields r, is in Updated as its DTEND, else its
\* DTSTART, says
EndDecides(e, r) ==
    NonRecurring(r) => (InUpdated(e) <=> ByEndThenStart(r.meta, startCutoff))

\* the same of the deferred object o that the backfill decides on
EndDecidesDeferred(o, r) ==
    NonRecurring(r) => (WasBackfilled(o) <=> ByEndThenStart(r.meta, startCutoff))

\* C5: under a cutoff, an object whose payload is a non-recurring event is in
\* Updated iff its DTEND, when it has one, is not before the cutoff, and
\* otherwise iff its DTSTART is not before the cutoff; with a DTEND, the
\* DTSTART does not matter. This holds of the objects whose payload came
\* with the sync response and of the deferred objects, decided on the
\* payload the multiget returned for them.
NonRecurringDecidedByEnd ==
    /\ [](~IsZero(startCutoff) =>
            \A k \in Decided :
                /\ EndDecides(ms.Responses[k],
                              extractEventMetadata(ms.Responses[k].data))
                /\ ms.Responses[k].data \in LaterSingles => InUpdated(ms.Responses[k])
                /\ ms.Responses[k].data \in EarlierSingles => ~InUpdated(ms.Responses[k]))
    /\ [][BackfillDecides =>
            \A k \in 1..Len(pendingPaths) :
                LET o == Considered(pendingPaths[k])
                IN  /\ EndDecidesDeferred(o, extractEventMetadata(o.Data))
                    /\ o.Data \in LaterSingles => WasBackfilled(o)
                    /\ o.Data \in EarlierSingles => ~WasBackfilled(o)
         ]_vars

\* an event that ends before the cutoff and starts after it, its payload in
\* the sync response, was dropped; a deferred object modified before the
\* cutoff, completed with an event that starts before the cutoff and ends
\* after it, was kept
EndDecidedAgainstStart ==
    /\ Succeeded
    /\ ~IsZero(startCutoff)
    /\ Len(ms.Responses) = 2
    /\ ms.Responses[1].data = PEndBeforeStartAfter
    /\ ms.Responses[2].href = PathB
    /\ ms.Responses[2].data = <<>>
    /\ ms.Responses[2].mod = ModBefore
    /\ fetchedObjects = <<Fetched(PathB, PEndAfter, ZeroTime, "")>>
    /\ Len(ret.Updated) = 1
    /\ ret.Updated[1].Path = PathB
    /\ ret.Updated[1].Data = PEndAfter
    /\ ret.Updated[1].ModTime = ModBefore

\* the payloads of recurring events: those whose rule has no UNTIL and no
\* COUNT, those whose UNTIL is at or after the cutoff, and the one whose
\* UNTIL is before it
OpenRules == {PRecurOpen, PRecurDotless}

LaterRules == {PRecurUntilAfter, PRecurUntilAt}

EarlierRules == {PRecurUntilBefore}

\* C6: under a cutoff, an object whose payload has an RRULE is in Updated
\* when the rule has no UNTIL and no COUNT, and with an UNTIL iff the UNTIL is
\* not before the cutoff, whatever its DTSTART and DTEND. This is stated of
\* the objects whose payload came with the sync response and of the deferred
\* objects, decided on the payload the multiget returned for them.
RecurringDecidedByUntil ==
    /\ [](~IsZero(startCutoff) =>
            \A k \in Decided :
                /\ ms.Responses[k].data \in OpenRules \cup LaterRules =>
                      InUpdated(ms.Responses[k])
                /\ ms.Responses[k].data \in EarlierRules => ~InUpdated(ms.Responses[k]))
    /\ [][BackfillDecides =>
            \A k \in 1..Len(pendingPaths) :
                LET o == Considered(pendingPaths[k])
                IN  /\ o.Data \in OpenRules \cup LaterRules => WasBackfilled(o)
                    /\ o.Data \in EarlierRules => ~WasBackfilled(o)
         ]_vars

\* an object whose rule has no UNTIL and no COUNT, the key of one component
\* being u, n, t, U+0131, l, its payload in the sync response and its last
\* modification after the cutoff, was dropped
DotlessRuleDropped ==
    /\ Succeeded
    /\ ~IsZero(startCutoff)
    /\ Len(ms.Responses) = 1
    /\ ms.Responses[1].data = PRecurDotless
    /\ ms.Responses[1].mod = ModAfter
    /\ ret.Updated = <<>>

\* RecurringDecidedByUntil of the rules whose keys are ASCII
RecurringDecidedByPlainUntil ==
    /\ [](~IsZero(startCutoff) =>
            \A k \in Decided :
                /\ ms.Responses[k].data \in {PRecurOpen} \cup LaterRules =>
                      InUpdated(ms.Responses[k])
                /\ ms.Responses[k].data \in EarlierRules => ~InUpdated(ms.Responses[k]))
    /\ [][BackfillDecides =>
            \A k \in 1..Len(pendingPaths) :
                LET o == Considered(pendingPaths[k])
                IN  /\ o.Data \in {PRecurOpen} \cup LaterRules => WasBackfilled(o)
                    /\ o.Data \in EarlierRules => ~WasBackfilled(o)
         ]_vars

\* the decision on an object of which only the modification time is known
ByModTime(mod, cutoff) == IsZero(mod) \/ ~Before(mod, cutoff)

\* the deferred entries the multiget did not complete, each the only
\* deferred entry of its path
LeftEmpty ==
    {k \in 1..Len(ms.Responses) :
        /\ Succeeded
        /\ IsDeferred(ms.Responses[k])
        /\ \A j \in 1..Len(ms.Responses) :
              (IsDeferred(ms.Responses[j]) /\ ms.Responses[j].href = ms.Responses[k].href)
                  => j = k
        /\ \A j \in 1..Len(fetchedObjects) :
              fetchedObjects[j].Path # ms.Responses[k].href}

\* C7: under a cutoff, an object whose payload yields no metadata is in
\* Updated iff its modification time is unknown or not before the cutoff,
\* and the call fails for no other reason than a failed request. This holds
\* of the objects whose payload came with the sync response and of the
\* deferred objects, decided on the payload the multiget returned for them
\* (none when it returned no object or an empty payload) and on the
\* modification time it returned, that of the sync response when it returned
\* none.
NoMetadataFallsBackToModTime ==
    /\ [](~IsZero(startCutoff) =>
            /\ \A k \in Decided :
                  (\/ ~extractEventMetadata(ms.Responses[k].data).ok
                   \/ ms.Responses[k].data = PNoMeta) =>
                      (InUpdated(ms.Responses[k]) <=>
                          ByModTime(ms.Responses[k].mod, startCutoff))
            /\ \A k \in LeftEmpty :
                  InUpdated(ms.Responses[k]) <=> ByModTime(ms.Responses[k].mod, startCutoff)
            /\ (pc = "done" /\ result.err # NoError) =>
                  /\ result.err \in TransportErrors
                  /\ idx = 0 \/ requests[Len(requests)].kind = "multiget")
    /\ [][BackfillDecides =>
            \A k \in 1..Len(pendingPaths) :
                LET o == Considered(pendingPaths[k])
                IN  (\/ ~extractEventMetadata(o.Data).ok
                     \/ o.Data \in {<<>>, PNoMeta}) =>
                        (WasBackfilled(o) <=> ByModTime(o.ModTime, startCutoff))
         ]_vars

\* an event without metadata modified before the cutoff, its payload in the
\* sync response, was dropped; a deferred object modified before the cutoff,
\* for which the multiget returned a payload without metadata and a
\* modification time after the cutoff, was kept
ModTimeDecided ==
    /\ Succeeded
    /\ ~IsZero(startCutoff)
    /\ Len(ms.Responses) = 2
    /\ ms.Responses[1].data = PNoMeta /\ ms.Responses[1].mod = ModBefore
    /\ ms.Responses[2].href = PathB
    /\ ms.Responses[2].data = <<>>
    /\ ms.Responses[2].mod = ModBefore
    /\ fetchedObjects = <<Fetched(PathA, PEndBefore, ModAfter, "f1"),
                          Fetched(PathB, PNoMeta, ModAfter, "f2")>>
    /\ Len(ret.Updated) = 1
    /\ ret.Updated[1].Path = PathB
    /\ ret.Updated[1].Data = PNoMeta
    /\ ret.Updated[1].ModTime = ModAfter

\* C29: a deferred object that the backfill appends to Updated has the path
\* it was deferred with; when the multiget returned an object for that path
\* it has the payload of that object, and the modification time, the content
\* length and the entity tag of that object where they are not zero or empty
\* and those of the sync response where they are; when the multiget returned
\* none it is the object of the sync response, unchanged.
BackfillCompletesDeferred ==
    [][BackfillReturns =>
        \A i \in 1..Len(Backfilled) :
            LET o == Backfilled[i]
            IN  /\ o.Path \in DOMAIN pendingObjects
                /\ LET co == pendingObjects[o.Path]
                   IN  IF FetchedAt(o.Path) = {} THEN o = co
                       ELSE LET f == FetchedFor(o.Path)
                            IN  /\ o.Data = f.Data
                                /\ o.ModTime = (IF IsZero(f.ModTime) THEN co.ModTime
                                                ELSE f.ModTime)
                                /\ o.ContentLength = (IF f.ContentLength = 0
                                                      THEN co.ContentLength
                                                      ELSE f.ContentLength)
                                /\ o.ETag = (IF f.ETag = <<>> THEN co.ETag ELSE f.ETag)
       ]_vars

\* a deferred object was completed with a payload, and kept the modification
\* time and the entity tag of the sync response, the fetched ones being zero
\* and empty
CompletedKeepingModTime ==
    /\ Succeeded
    /\ Len(requests) = 2
    /\ fetchedObjects = <<Fetched(PathB, PEndAfter, ZeroTime, "")>>
    /\ \E i \in 1..Len(result.resp[1].Updated) :
           LET o == result.resp[1].Updated[i]
           IN  /\ o.Path = PathB
               /\ o.Data = PEndAfter
               /\ o.ModTime = ModBefore
               /\ o.ETag = pendingObjects[PathB].ETag
               /\ pendingObjects[PathB].Data = <<>>

\* the positions of pendingPaths whose path the multiget did not return
Absent == {k \in 1..Len(pendingPaths) : FetchedAt(pendingPaths[k]) = {}}

\* C30: a deferred object that the multiget does not return is appended to
\* Updated, as the sync response gave it, exactly when its modification time
\* is unknown or not before the cutoff; as often as its path was deferred.
AbsentDecidedByModTime ==
    [][BackfillReturns =>
        \A k \in Absent :
            LET co == pendingObjects[pendingPaths[k]]
                kept == IsZero(co.ModTime) \/ ~Before(co.ModTime, startCutoff)
                times == Cardinality({j \in Absent : pendingPaths[j] = pendingPaths[k]})
            IN  Cardinality({i \in 1..Len(Backfilled) : Backfilled[i] = co})
                    = (IF kept THEN times ELSE 0)
       ]_vars

\* the multiget returned nothing, and of two deferred objects the one
\* modified after the cutoff is in Updated and the one modified before is not
AbsentKeptAndDropped ==
    /\ Succeeded
    /\ Len(requests) = 2
    /\ fetchedObjects = <<>>
    /\ pendingPaths = <<PathB, PathA>>
    /\ Before(pendingObjects[PathB].ModTime, startCutoff)
    /\ After(pendingObjects[PathA].ModTime, startCutoff)
    /\ result.resp[1].Updated = <<pendingObjects[PathA]>>

\* s is t with some of its elements left out
IsSubSeq(s, t) ==
    \E f \in [1..Len(s) -> 1..Len(t)] :
        /\ \A i \in 1..Len(s) : s[i] = t[f[i]]
        /\ \A i, j \in 1..Len(s) : i < j => f[i] < f[j]

\* an object entry that came with its payload
IsInline(e) == IsObject(e) /\ Len(e.data) > 0

\* the list u is n objects of entries that came with their payload, as the
\* entries gave them and in the order of the response, followed by objects
\* on the paths of entries that came without, in the order of the response
TwoGroups(u, n) ==
    /\ IsSubSeq(SubSeq(u, 1, n), Unfiltered(SelectSeq(ms.Responses, IsInline)))
    /\ IsSubSeq(PathsOf(SubSeq(u, n + 1, Len(u))),
                HrefsOf(SelectSeq(ms.Responses, IsDeferred)))

\* C31: the Updated list of a full sync with a cutoff is in two groups: first
\* the objects whose payload came in the sync-collection response, then the
\* objects that were deferred to the backfill, each group in the order of the
\* response; until the backfill Updated holds objects of the first group only.
UpdatedInTwoGroups ==
    ~IsZero(startCutoff) =>
        /\ pc \in {"loop", "multiget"} => TwoGroups(ret.Updated, Len(ret.Updated))
        /\ Succeeded => \E n \in 0..Len(result.resp[1].Updated) :
                            TwoGroups(result.resp[1].Updated, n)

\* the response held an entry without payload before one with a payload, both
\* were included, and Updated has them in the other order
DeferredAfterLaterInline ==
    /\ Succeeded
    /\ ~IsZero(startCutoff)
    /\ Len(ms.Responses) = 2
    /\ IsDeferred(ms.Responses[1])
    /\ IsInline(ms.Responses[2])
    /\ PathsOf(result.resp[1].Updated) = <<ms.Responses[2].href, ms.Responses[1].href>>

\* the entries the loop over the response has been through
Processed == SubSeq(ms.Responses, 1, idx - 1)

\* C32: Deleted, Calendar and SyncToken depend on the sync-collection response
\* alone, with a cutoff as without: at every point of the loop Deleted is the
\* paths of the 404 entries met so far and Calendar is that of the last
\* calendar entry of the collection's own path met so far, the token is the
\* response's, and the response returned has the three as the loop left them.
CutoffLeavesTheRestAlone ==
    /\ pc \in {"loop", "multiget"} =>
          /\ ret.Deleted = HrefsOf(SelectSeq(Processed, Gone))
          /\ ret.Calendar = CalendarOf(Processed)
          /\ ret.SyncToken = ms.SyncToken
    /\ Succeeded =>
          /\ result.resp[1].Deleted = HrefsOf(SelectSeq(ms.Responses, Gone))
          /\ result.resp[1].Calendar = CalendarOf(ms.Responses)
          /\ result.resp[1].SyncToken = ms.SyncToken

\* a sync under a cutoff returned a Deleted path and the Calendar, while the
\* cutoff kept an object of the response out of Updated
GoneRecordedUnderCutoff ==
    /\ Succeeded
    /\ ~IsZero(startCutoff)
    /\ Len(ms.Responses) = 3
    /\ Len(result.resp[1].Deleted) = 1
    /\ result.resp[1].Calendar # Nil
    /\ Len(Unfiltered(ms.Responses)) = 1
    /\ result.resp[1].Updated = <<>>

(***************************************************************************)
(* Properties of CalendarQueryRange                                        *)
(***************************************************************************)
\* the bounds the call must reject
BothOpen == IsZero(start) /\ IsZero(end)

NotBefore == ~IsZero(start) /\ ~IsZero(end) /\ ~Before(start, end)

\* C8: a call with both bounds zero, or with both set and start not before
\* end, has returned an error and no objects, and has sent no request.
InvalidBoundsRejected ==
    (pc # "idle" /\ (BothOpen \/ NotBefore)) =>
        /\ pc = "done"
        /\ result.resp = Nil
        /\ result.err = (IF BothOpen THEN ErrNoBounds ELSE ErrNotBefore)
        /\ requests = <<>>

\* a call with start equal to end was rejected
EqualBoundsRejected ==
    /\ pc = "done"
    /\ ~IsZero(start)
    /\ start = end
    /\ result.err = ErrNotBefore
    /\ requests = <<>>

\* the request just sent
Sent == requests'[Len(requests')]

\* C9: each request for a top-level window is for a window that starts at
\* start (the first) or where the window before it ended, that is not
\* empty, no wider than 90 days and does not end after end; each request
\* for a half is for a window inside its parent and no wider; and the call
\* returns its objects only when the window in progress ends at end.
WindowsContiguousAndBounded ==
    [][ /\ (requests' # requests /\ Len(stack') = 1) =>
              /\ Sent = QueryRequest(path', stack'[1].start, stack'[1].end)
              /\ stack'[1].start = (IF pc = "idle" THEN start' ELSE stack[1].end)
              /\ Before(stack'[1].start, stack'[1].end)
              /\ ~Less(Duration(90, 0, 0), Sub(stack'[1].end, stack'[1].start))
              /\ ~After(stack'[1].end, end')
        /\ (requests' # requests /\ Len(stack') > 1) =>
              /\ Sent = QueryRequest(path', stack'[Len(stack')].start,
                                     stack'[Len(stack')].end)
              /\ ~Less(Sub(stack'[Len(stack') - 1].end, stack'[Len(stack') - 1].start),
                       Sub(stack'[Len(stack')].end, stack'[Len(stack')].start))
              /\ ~Before(stack'[Len(stack')].start, stack'[Len(stack') - 1].start)
              /\ ~After(stack'[Len(stack')].end, stack'[Len(stack') - 1].end)
        /\ (pc = "window" /\ pc' = "done" /\ result'.err = NoError) =>
              stack[1].end = end
      ]_vars

\* a call over 200 days returned its objects after three top-level windows
\* and a bisection
ThreeWindowsAndABisection ==
    /\ pc = "done"
    /\ result.err = NoError
    /\ ~IsZero(start) /\ ~IsZero(end)
    /\ Sub(end, start) = Duration(200, 0, 0)
    /\ Len(failures) = 1
    /\ Len(requests) = 5

\* C10: when the request of a window fails, the window is bisected, the next
\* request being for its first half, iff the error is HTTP 507 and the window
\* is wider than one day; otherwise the call returns that error and no
\* objects, and sends no further request.
BisectsOnlyOn507AboveOneDay ==
    [][ (pc = "window" /\ failures' # failures) =>
            IF /\ failures'[Len(failures')] = HTTPError(507)
               /\ Less(Duration(1, 0, 0),
                       Sub(stack[Len(stack)].end, stack[Len(stack)].start))
            THEN /\ pc' = "window"
                 /\ Len(requests') = Len(requests) + 1
                 /\ Sent = QueryRequest(path, stack[Len(stack)].start,
                        Add(stack[Len(stack)].start,
                            Half(Sub(stack[Len(stack)].end, stack[Len(stack)].start))))
            ELSE /\ pc' = "done"
                 /\ result' = [resp |-> Nil, err |-> failures'[Len(failures')]]
                 /\ requests' = requests
      ]_vars

\* a window of three days was bisected twice, and the 507 on the window of
\* eighteen hours was returned
BisectedDownToOneDay ==
    /\ pc = "done"
    /\ ~IsZero(start) /\ ~IsZero(end)
    /\ Sub(end, start) = Duration(3, 0, 0)
    /\ failures = <<HTTPError(507), HTTPError(507), HTTPError(507)>>
    /\ Len(requests) = 3
    /\ result = [resp |-> Nil, err |-> HTTPError(507)]

\* the width of a window
Width(f) == Sub(f.end, f.start)

\* the innermost call in progress, before and after the step
Top == stack[Len(stack)]

NewTop == stack'[Len(stack')]

\* C11: against a server that answers every request a windowed call returns.
\* A capacity failure on a window wider than one day is followed by the
\* request of its first half, and the return of that half by the request of
\* its second half: the midpoint lies strictly inside the window, so that
\* both halves are strictly narrower. A capacity failure on a window of at
\* most one day ends the call, which returns that failure and no objects.
BisectionTerminates ==
    /\ [][ /\ (pc = "window" /\ failures' # failures
               /\ failures'[Len(failures')] = HTTPError(StatusInsufficientStorage)) =>
                 IF Less(Duration(1, 0, 0), Width(Top))
                 THEN /\ pc' = "window"
                      /\ Len(stack') = Len(stack) + 1
                      /\ After(stack'[Len(stack)].mid, Top.start)
                      /\ Before(stack'[Len(stack)].mid, Top.end)
                      /\ NewTop = Frame(Top.start, stack'[Len(stack)].mid)
                      /\ Less(Width(NewTop), Width(Top))
                 ELSE /\ pc' = "done"
                      /\ result' = [resp |-> Nil,
                                    err |-> HTTPError(StatusInsufficientStorage)]
                      /\ requests' = requests
           /\ (pc = "window" /\ answers' # answers /\ pc' = "window"
               /\ Len(stack') > 1) =>
                 /\ stack'[Len(stack') - 1].phase = "right"
                 /\ NewTop = Frame(stack'[Len(stack') - 1].mid,
                                   stack'[Len(stack') - 1].end)
                 /\ Less(Width(NewTop), Width(stack'[Len(stack') - 1]))
         ]_vars
    /\ (pc = "window" ~> pc = "done")

\* a call over two days returned the 507 of its second half, one day wide,
\* after its first half was answered
SecondHalfFailureReturned ==
    /\ pc = "done"
    /\ ~IsZero(start) /\ ~IsZero(end)
    /\ Sub(end, start) = Duration(2, 0, 0)
    /\ failures = <<HTTPError(StatusInsufficientStorage),
                    HTTPError(StatusInsufficientStorage)>>
    /\ Len(answers) = 1
    /\ Len(requests) = 3
    /\ result = [resp |-> Nil, err |-> HTTPError(StatusInsufficientStorage)]

\* the call was made with both bounds and has passed their validation
Windowed == pc \in {"window", "done"} /\ ~IsZero(start) /\ ~IsZero(end) /\ ~NotBefore

\* no two objects of objs have the same path
DistinctPaths(objs) ==
    \A i, j \in 1..Len(objs) : objs[i].Path = objs[j].Path => i = j

\* C12: the objects a windowed call has merged so far, and the list it
\* returns, hold no path twice, whatever the windows and halves returned.
ResultHoldsNoPathTwice ==
    Windowed =>
        /\ DistinctPaths(results)
        /\ (pc = "done" /\ result.err = NoError) =>
              /\ result.resp = Some(results)
              /\ DistinctPaths(result.resp[1])

\* both halves of a bisected window returned PathA, the second half PathB
\* twice as well, and the call returned one object for each path
BothHalvesReturnedSamePath ==
    /\ pc = "done"
    /\ Windowed
    /\ Len(requests) = 3
    /\ failures = <<HTTPError(StatusInsufficientStorage)>>
    /\ answers = << <<QueryObject(PathA, "q1")>>,
                    <<QueryObject(PathB, "q2"), QueryObject(PathA, "q3"),
                      QueryObject(PathB, "q4")>> >>
    /\ result.err = NoError
    /\ Len(result.resp[1]) = 2

\* the objects of the answers from the k-th on, in the order they were returned
RECURSIVE Flatten(_, _)
Flatten(seqs, k) == IF k > Len(seqs) THEN <<>> ELSE seqs[k] \o Flatten(seqs, k + 1)

\* the paths of the objects objs
PathSet(objs) == {objs[i].Path : i \in 1..Len(objs)}

\* the last object of objs with the path p
LastWith(objs, p) ==
    objs[CHOOSE i \in 1..Len(objs) :
            /\ objs[i].Path = p
            /\ \A j \in 1..Len(objs) : objs[j].Path = p => j <= i]

\* C13: the list a windowed call returns holds, for every path the server
\* returned, the object of the last answer that held the path (the last one
\* of that answer), and holds nothing else: an object replaces only an
\* object of its own path.
LastAnswerWinsPerPath ==
    (Windowed /\ pc = "done" /\ result.err = NoError) =>
        /\ PathSet(result.resp[1]) = PathSet(Flatten(answers, 1))
        /\ \A i \in 1..Len(result.resp[1]) :
              result.resp[1][i] = LastWith(Flatten(answers, 1), result.resp[1][i].Path)

\* the first half of a bisected window returned PathB, PathA, PathB and the
\* second half PathA again: the call returned the second PathB of the first
\* half and the PathA of the second half
LaterAnswerReplacedEarlier ==
    /\ pc = "done"
    /\ Windowed
    /\ Len(requests) = 3
    /\ failures = <<HTTPError(StatusInsufficientStorage)>>
    /\ answers = << <<QueryObject(PathB, "q2"), QueryObject(PathA, "q3"),
                      QueryObject(PathB, "q4")>>,
                    <<QueryObject(PathA, "q1")>> >>
    /\ result = [resp |-> Some(<<QueryObject(PathB, "q4"), QueryObject(PathA, "q1")>>),
                 err |-> NoError]

\* the window the k-th request asks for
WindowOf(k) ==
    [start |-> requests[k].filter.Comps[1].Start,
     end |-> requests[k].filter.Comps[1].End]

\* the window w lies inside the window v
Inside(w, v) == ~Before(w.start, v.start) /\ ~After(w.end, v.end)

\* the windows ws, in the order they were requested, are distinct, and each
\* is a part of every earlier one or starts where that one ends or later
InOrder(ws) ==
    \A j \in 2..Len(ws) : \A i \in 1..(j - 1) :
        /\ ws[i] # ws[j]
        /\ ~Before(ws[j].start, ws[i].start)
        /\ \/ Inside(ws[j], ws[i])
           \/ ~Before(ws[j].start, ws[i].end)

\* C14: a windowed call has at most one request out, which is the case while
\* it waits: every earlier request was answered or failed before the next
\* one was sent. No window is requested twice, and a request sent after
\* another is for a part of that one's window (a half of a window that
\* failed) or for a window that starts where that one ends or later: windows
\* go by ascending start, and everything of a first half comes before the
\* second half.
OneRequestAtATimeInOrder ==
    Windowed =>
        /\ Len(requests) = Len(answers) + Len(failures)
                            + (IF pc = "window" THEN 1 ELSE 0)
        /\ \A k \in 1..Len(requests) : requests[k].kind = "calendar-query"
        /\ InOrder([k \in 1..Len(requests) |-> WindowOf(k)])

\* a call over 200 days returned after the first window and its first half
\* failed: the quarters, the second half and the two other windows followed
\* in that order
HalvesBeforeNextWindow ==
    /\ pc = "done"
    /\ Windowed
    /\ result.err = NoError
    /\ Sub(end, start) = Duration(200, 0, 0)
    /\ Len(failures) = 2
    /\ Len(requests) = 7
    /\ Inside(WindowOf(3), WindowOf(2))
    /\ WindowOf(5).end = WindowOf(1).end
    /\ WindowOf(6).start = WindowOf(1).end

\* C16: every request of CalendarQueryRange carries a VCALENDAR filter
\* holding exactly one filter, for VEVENT, whose time range is the window
\* the request is for (the window or half in progress, or the bounds of a
\* call with one bound), and carries an expand directive exactly when both
\* bounds of that range are set, with the same bounds.
RequestCarriesItsWindow ==
    /\ \A k \in 1..Len(requests) :
          requests[k].kind = "calendar-query" =>
            /\ requests[k].filter.Name = "VCALENDAR"
            /\ Len(requests[k].filter.Comps) = 1
            /\ requests[k].filter.Comps[1].Name = "VEVENT"
            /\ (requests[k].expand # Nil) <=>
                  (~IsZero(WindowOf(k).start) /\ ~IsZero(WindowOf(k).end))
            /\ (requests[k].expand # Nil) =>
                  requests[k].expand = Some([Start |-> WindowOf(k).start,
                                             End |-> WindowOf(k).end])
    /\ pc = "window" =>
          WindowOf(Len(requests)) = [start |-> Top.start, end |-> Top.end]
    /\ pc = "once" =>
          WindowOf(Len(requests)) = [start |-> start, end |-> end]

\* the request out is for a quarter of the first window of a call over 200
\* days, and expands over that quarter
QuarterRequestedWithExpand ==
    /\ pc = "window"
    /\ Sub(end, start) = Duration(200, 0, 0)
    /\ Len(stack) = 3
    /\ Width(Top) = Hours(540)
    /\ requests[Len(requests)].expand = Some([Start |-> Top.start, End |-> Top.end])

\* the call has one bound set and the other open
OneSided == pc # "idle" /\ IsZero(start) # IsZero(end)

\* C17: a call with exactly one bound set sends exactly one request, whose
\* time range has the set bound and is open on the other side and which
\* carries no expand directive; it never goes through windows or halves,
\* and returns what that request returned: its objects, or its error with no
\* objects, a 507 included.
OpenRangeIsOneRequest ==
    OneSided =>
        /\ pc \in {"once", "done"}
        /\ stack = <<>>
        /\ Len(requests) = 1
        /\ requests[1].kind = "calendar-query"
        /\ WindowOf(1) = [start |-> start, end |-> end]
        /\ requests[1].expand = Nil
        /\ Len(failures) + Len(answers) = (IF pc = "done" THEN 1 ELSE 0)
        /\ (pc = "done" /\ failures # <<>>) =>
              result = [resp |-> Nil, err |-> failures[1]]
        /\ (pc = "done" /\ answers # <<>>) =>
              result = [resp |-> Some(answers[1]), err |-> NoError]

\* a call with start only returned the 507 of its one request
OpenEnded507Returned ==
    /\ pc = "done"
    /\ ~IsZero(start) /\ IsZero(end)
    /\ Len(requests) = 1
    /\ failures = <<HTTPError(StatusInsufficientStorage)>>
    /\ result = [resp |-> Nil, err |-> HTTPError(StatusInsufficientStorage)]

\* the time ranges ws are not empty and each starts where the one before it
\* ends
Contiguous(ws) ==
    /\ \A k \in 1..Len(ws) : Before(ws[k].start, ws[k].end)
    /\ \A k \in 2..Len(ws) : ws[k].start = ws[k - 1].end

\* the windowed call returned objects
WindowedSuccess == Windowed /\ pc = "done" /\ result.err = NoError

\* C28: in a windowed call the windows of the requests that were answered
\* with objects, in the order of the requests, are not empty, the first
\* starts at start and each starts where the one before it ends; when the
\* call returns its objects the last of them ends at end, so that they tile
\* the range start..end, whatever requests failed and were bisected.
AnsweredWindowsTileTheRange ==
    /\ (Windowed /\ served # <<>>) => (served[1].start = start /\ Contiguous(served))
    /\ WindowedSuccess => (served # <<>> /\ served[Len(served)].end = end)

\* a call returned its objects after two of its requests had failed
TiledAfterTwoBisections ==
    /\ WindowedSuccess
    /\ Len(failures) = 2
    /\ Len(served) >= 3
    /\ Len(requests) = Len(served) + 2

(***************************************************************************)
(* Properties of both operations                                           *)
(***************************************************************************)
\* C15: when a request of CalendarQueryRange fails with a cancellation or a
\* server error, the call returns that error and no objects and sends no
\* further request; when the sync-collection REPORT or the backfill multiget
\* of SyncCalendar fails, the call returns the error and no response and
\* sends no further request; and a call that has returned sends none.
FailureEndsTheOperation ==
    [][ /\ (pc \in {"window", "once"} /\ failures' # failures
            /\ failures'[Len(failures')] \in TransportErrors) =>
              /\ pc' = "done"
              /\ result' = [resp |-> Nil, err |-> failures'[Len(failures')]]
              /\ requests' = requests
        /\ (pc \in {"sync-collection", "multiget"} /\ result'.err # NoError) =>
              /\ pc' = "done"
              /\ result'.err \in TransportErrors
              /\ result'.resp = Nil
              /\ requests' = requests
        /\ pc = "done" => requests' = requests
      ]_vars

\* a call over 200 days was cancelled while the first half of its first
\* window was out: the second half and the other windows were never requested
CancelledInFirstHalf ==
    /\ pc = "done"
    /\ Windowed
    /\ Sub(end, start) = Duration(200, 0, 0)
    /\ failures = <<HTTPError(StatusInsufficientStorage), Cancelled>>
    /\ Len(requests) = 2
    /\ result = [resp |-> Nil, err |-> Cancelled]

(***************************************************************************)
(* Properties of the extractor                                             *)
(***************************************************************************)
\* C18: for a content line cut into pieces and folded, every piece after the
\* first on a line of its own behind one space or tab, unfoldICSLines
\* returns the one line the pieces make up, white space at the head of a
\* piece included.
UnfoldInvertsFold ==
    \A f \in FoldInputs :
        (pc = "unfolded" /\ payload = Fold(f)) =>
            unfolded = [ok |-> TRUE, lines |-> <<Logical(f)>>]

\* C19: for a payload of two VEVENT blocks extractEventMetadata returns what
\* it returns for the payload that holds the first block alone.
FirstEventDecides ==
    \A a, b \in Blocks :
        (pc = "extracted" /\ payload = Calendar(<<a, b>>)) =>
            extracted = extractEventMetadata(Calendar(<<a>>))

\* C20: extractEventMetadata fails exactly when the payload is empty or its
\* VEVENT blocks hold no RRULE, no start and no end.
FailsOnlyWhenEmptyOrBare ==
    \A c \in EventInputs :
        (pc = "extracted" /\ payload = c.data) =>
            (extracted.ok <=> (c.data # <<>> /\ (c.rrule \/ c.start \/ c.end)))

(***************************************************************************)
(* Properties of the helpers                                               *)
(***************************************************************************)
\* the input of TimeInputs that parseICSTime was called on
ParsedInput == CHOOSE v \in TimeInputs : v.text = argument[1]

\* C21: parseICSTime accepts a value exactly when it has, between white
\* space or not, one of the three forms YYYYMMDDTHHMMSSZ, YYYYMMDDTHHMMSS and
\* YYYYMMDD, and returns the instant the value denotes; a value that ends in
\* Z is accepted only as a UTC timestamp, a value that does not end in Z
\* never is, and a value of no form gets an error and the zero time.
ParsesByForm ==
    pc = "parsed" =>
        LET v == ParsedInput
        IN  /\ returned.ok = (v.form # "none")
            /\ returned.t = v.t
            /\ (returned.ok /\ HasSuffix(v.bare, Bytes("Z"))) => v.form = "utc"
            /\ (returned.ok /\ ~HasSuffix(v.bare, Bytes("Z")))
                   => v.form \in {"floating", "date"}
            /\ ~returned.ok => returned.t = ZeroTime

\* a UTC timestamp with half a second after its seconds, which has none of
\* the three forms, was accepted
FractionOfASecondAccepted ==
    /\ pc = "parsed"
    /\ argument[1] = Bytes("20240101T100000.5Z")
    /\ returned.ok
    /\ returned.t = Date(2024, 1, 1, 10, 0, 0, 500000000)

\* ParsesByForm of the values without a fraction of a second
ParsesByFormWithoutFraction ==
    (pc = "parsed" /\ ParsedInput.fraction = <<>>) =>
        LET v == ParsedInput
        IN  /\ returned.ok = (v.form # "none")
            /\ returned.t = v.t
            /\ ~returned.ok => returned.t = ZeroTime

\* a date followed by Z was refused although the date alone is accepted
DateWithZRefused ==
    /\ pc = "parsed"
    /\ argument[1] = Bytes("20240101Z")
    /\ ~returned.ok
    /\ parseICSTime(Bytes("20240101")).ok

\* the instant of the last UNTIL of parts that parses, the zero time when
\* there is none
RECURSIVE LastUntil(_, _)
LastUntil(parts, k) ==
    IF k = 0 THEN ZeroTime
    ELSE IF parts[k].kind = "until" THEN parts[k].t
    ELSE LastUntil(parts, k - 1)

\* C22: an RRULE marks the event recurring; it is left open-ended unless a
\* component of it is an UNTIL that parses or a COUNT with an integer; the
\* recurrence end is the instant of the UNTIL that parses (the last of
\* them), and stays zero when only a COUNT bounds the rule; components
\* without '=' and with other keys change nothing.
RRuleSetsRecurrence ==
    \A r \in RRuleInputs :
        (pc = "extracted" /\ payload = r.data) =>
            /\ extracted.ok
            /\ extracted.meta.recurring
            /\ extracted.meta.recurrenceOpen
                   = ~(\E k \in 1..Len(r.parts) : r.parts[k].kind \in {"until", "count"})
            /\ extracted.meta.recurrenceEnd = LastUntil(r.parts, Len(r.parts))
            /\ extracted.meta.start = Date(2024, 1, 1, 10, 0, 0, 0)
            /\ extracted.meta.end = ZeroTime

\* the component whose key is u, n, t, U+0131, l
DotlessUntil ==
    [text |-> Bytes("unt") \o <<196, 177>> \o Bytes("l=20200101T000000Z"), kind |-> "other",
     t |-> ZeroTime]

\* a rule of FREQ=DAILY and the component DotlessUntil was read: closed, its
\* recurrence end the time of that component
DotlessKeyReadAsUntil ==
    /\ pc = "extracted"
    /\ payload = RRuleEvent(<<[text |-> Bytes("FREQ=DAILY"), kind |-> "other",
                               t |-> ZeroTime],
                              DotlessUntil>>)
    /\ extracted.meta.recurring
    /\ ~extracted.meta.recurrenceOpen
    /\ extracted.meta.recurrenceEnd = Date(2020, 1, 1, 0, 0, 0, 0)

\* the components of r all have ASCII keys
PlainKeys(r) == \A k \in 1..Len(r.parts) : r.parts[k] # DotlessUntil

\* RRuleSetsRecurrence of the rules whose keys are ASCII
RRuleSetsRecurrenceOfPlainKeys ==
    \A r \in RRuleInputs :
        (pc = "extracted" /\ payload = r.data /\ PlainKeys(r)) =>
            /\ extracted.ok
            /\ extracted.meta.recurring
            /\ extracted.meta.recurrenceOpen
                   = ~(\E k \in 1..Len(r.parts) : r.parts[k].kind \in {"until", "count"})
            /\ extracted.meta.recurrenceEnd = LastUntil(r.parts, Len(r.parts))

\* a rule bounded by a COUNT alone was read: closed, with no recurrence end
CountAloneRead ==
    /\ pc = "extracted"
    /\ payload = RRuleEvent(<<[text |-> Bytes("FREQ=DAILY"), kind |-> "other",
                               t |-> ZeroTime],
                              [text |-> Bytes("COUNT=10"), kind |-> "count",
                               t |-> ZeroTime]>>)
    /\ extracted.meta.recurring
    /\ ~extracted.meta.recurrenceOpen
    /\ extracted.meta.recurrenceEnd = ZeroTime

\* p without any of its trailing slashes
RECURSIVE Stripped(_)
Stripped(p) ==
    IF Len(p) > 0 /\ At(p, Len(p)) = "/" THEN Stripped(SubSeq(p, 1, Len(p) - 1)) ELSE p

\* C23: sameCollectionPath(a, b) is true exactly when a and b are equal
\* after stripping every trailing slash from each, the empty path and "/"
\* excepted, which are never the same; "/cal", "/cal/" and "/cal///" are the
\* same collection path.
SameIsEqualWithoutTrailingSlashes ==
    pc = "compared" =>
        LET a == argument[1]
            b == argument[2]
        IN  returned = (Stripped(a) = Stripped(b) /\ {a, b} # {"", "/"})

(***************************************************************************)
(* Properties of the calendars returned and of the errors                  *)
(***************************************************************************)
\* the operation that was called, told by the request it sent first
Called(op) ==
    /\ Len(requests) > 0
    /\ \/ op = "FindCalendars" /\ requests[1].kind = "propfind" /\ requests[1].depth = 1
          /\ requests[1].props = calendarPropFind
       \/ op = "GetCalendar" /\ requests[1].kind = "propfind" /\ requests[1].depth = 0
          /\ requests[1].props = calendarPropFind
       \/ op = "SyncCalendarListWithLimit" /\ requests[1].kind = "sync-collection"
          /\ requests[1].path = HomePath
       \/ op = "SyncCalendar" /\ requests[1].kind = "sync-collection"
          /\ requests[1].path = CalPath
       \/ op = "CalendarQueryRange" /\ requests[1].kind = "calendar-query"
          /\ argument = <<>>

AllSized(cals) == \A k \in 1..Len(cals) : cals[k].MaxResourceSize >= 0

FindCalendarsSized == (Succeeded /\ Called("FindCalendars")) => AllSized(result.resp[1])

GetCalendarSized ==
    (Succeeded /\ Called("GetCalendar")) => result.resp[1].MaxResourceSize >= 0

SyncCalendarListSized ==
    (Succeeded /\ Called("SyncCalendarListWithLimit"))
        => AllSized(result.resp[1].UpdatedCalendars)

SyncCalendarSized ==
    (Succeeded /\ Called("SyncCalendar")) => AllSized(result.resp[1].Calendar)

\* C24: no Calendar handed to a caller has a negative maximum resource
\* size: not one of the list of FindCalendars, not the one of GetCalendar,
\* not one of UpdatedCalendars of SyncCalendarListWithLimit, not the
\* Calendar of the SyncResponse of SyncCalendar.
NoNegativeSizeReturned ==
    /\ FindCalendarsSized
    /\ GetCalendarSized
    /\ SyncCalendarListSized
    /\ SyncCalendarSized

\* SyncCalendarListWithLimit returned a result
ListSynced == Succeeded /\ Called("SyncCalendarListWithLimit")

\* an entry of the answer that is not the home set itself
IsMember(e) == ~sameCollectionPath(e.href, HomePath)

\* the calendar a decodable calendar entry stands for
CalendarEntryOf(e) == [Path |-> e.href, MaxResourceSize |-> e.maxsize]

\* the calendars of the entries es, in order
CalendarsOf(es) == [k \in 1..Len(es) |-> CalendarEntryOf(es[k])]

\* every 404 entry that is not the home set is a path of DeletedCalendars
ListSyncRecordsGone ==
    ListSynced =>
        result.resp[1].DeletedCalendars
            = HrefsOf(SelectSeq(ms.Responses, LAMBDA e : Gone(e) /\ IsMember(e)))

\* every calendar collection that decodes is in UpdatedCalendars, and the
\* home set is not
ListSyncKeepsCalendars ==
    ListSynced =>
        result.resp[1].UpdatedCalendars
            = CalendarsOf(SelectSeq(ms.Responses,
                                    LAMBDA e : /\ e.status = StatusOK
                                               /\ IsMember(e)
                                               /\ e.bad \notin CalendarProps
                                               /\ e.bad # "resourcetype"
                                               /\ e.rtype \notin {"other", "empty"}))

\* the sync token of the answer is NextSyncToken
ListSyncReturnsToken == ListSynced => result.resp[1].NextSyncToken = ms.SyncToken

\* C36: a result of SyncCalendarListWithLimit has in DeletedCalendars the
\* path of every entry of the answer with a 404 status that is not the home
\* set, in UpdatedCalendars every calendar collection that decodes, the home
\* set left out, and in NextSyncToken the sync token of the answer.
ListSyncSortsEveryEntry ==
    /\ ListSyncRecordsGone
    /\ ListSyncKeepsCalendars
    /\ ListSyncReturnsToken

\* the phase in which the call failed: the one of the request it sent last
FailedPhase ==
    IF ~(pc = "done" /\ result.err # NoError) \/ Len(requests) = 0 THEN "none"
    ELSE IF Called("SyncCalendar") /\ requests[Len(requests)].kind = "multiget"
    THEN "backfill"
    ELSE IF Called("SyncCalendar") THEN "sync"
    ELSE IF Called("CalendarQueryRange") THEN "windowed query"
    ELSE "discovery"

\* what a call returns when its backfill multiget fails, and when the
\* PROPFIND of FindCalendars fails: the error of the transport, unchanged
BackfillErrors == TransportErrors

DiscoveryErrors == TransportErrors

\* C25: the error of a failed call identifies the phase that failed: the
\* error of a failed sync-collection request is none that a failed backfill
\* returns, and the error of a failed windowed query is none that a failed
\* discovery returns.
FailureNamesItsPhase ==
    /\ FailedPhase = "sync" => result.err \notin BackfillErrors
    /\ FailedPhase = "windowed query" => result.err \notin DiscoveryErrors

(***************************************************************************)
(* Properties of PutCalendarObject and DeleteCalendarObject                *)
(***************************************************************************)
\* sub occurs in s
Contains(s, sub) ==
    \E i \in 1..(Len(s) - Len(sub) + 1) : SubSeq(s, i, i + Len(sub) - 1) = sub

\* the call of kind "put" or "delete" has returned
Returned(kind) == pc = "done" /\ Len(requests) = 1 /\ requests[1].kind = kind

\* tag between double quotes
InQuotes(tag) == "\"" \o tag \o "\""

\* C26: DeleteCalendarObject sends If-Match, the tag in double quotes,
\* exactly when opts is not nil and its IfMatch is not empty; a 412 gives a
\* precondition-failed error, a 404 a not-found error that names the path,
\* every other error is returned as it is, and success gives no error.
DeleteMapsTheOutcome ==
    Returned("delete") =>
        LET opts == argument[2]
            err == answers[1]
        IN  /\ (requests[1].ifMatch # Nil) = (opts # Nil /\ opts[1].IfMatch # "")
            /\ requests[1].ifMatch # Nil
                   => requests[1].ifMatch = Some(InQuotes(opts[1].IfMatch))
            /\ requests[1].path = argument[1]
            /\ err = HTTPError(412)
                   => /\ Contains(result.err.kind, "precondition failed")
                      /\ result.err # err
            /\ err = HTTPError(404)
                   => /\ Contains(result.err.kind, "not found")
                      /\ Contains(result.err.kind, argument[1])
                      /\ result.err # err
            /\ err \notin {HTTPError(412), HTTPError(404)} => result.err = err
            /\ result.resp = Nil

\* a conditional delete of a missing object returned the not-found error
MissingObjectDeleted ==
    /\ Returned("delete")
    /\ argument = <<"/cal/missing.ics", Some([IfMatch |-> "right"])>>
    /\ requests[1].ifMatch = Some("\"right\"")
    /\ answers[1] = HTTPError(404)
    /\ result.err.kind = "caldav: calendar object not found at path: /cal/missing.ics"

\* header without the double quotes around it, when it has them
WithoutQuotes(header) ==
    IF Len(header) >= 2 /\ At(header, 1) = Bytes("\"") /\ At(header, Len(header)) = Bytes("\"")
    THEN SubSeq(header, 2, Len(header) - 1)
    ELSE header

\* the conditional headers of the PUT are those of the options
PutSendsTheTags ==
    Returned("put") =>
        LET opts == argument[2]
        IN  /\ requests[1].ifMatch =
                   (IF opts # Nil /\ opts[1].IfMatch # ""
                    THEN Some(InQuotes(opts[1].IfMatch)) ELSE Nil)
            /\ requests[1].ifNoneMatch =
                   (IF opts = Nil \/ opts[1].IfNoneMatch = "" THEN Nil
                    ELSE IF opts[1].IfNoneMatch = "*" THEN Some("*")
                    ELSE Some(InQuotes(opts[1].IfNoneMatch)))

\* a 412 gives a precondition-failed error and no object
PutFailsOn412 ==
    (Returned("put") /\ answers[1].err = HTTPError(412))
        => /\ result.resp = Nil
           /\ Contains(result.err.kind, "precondition failed")

\* a response of success with an ETag header (and a Content-Length that is
\* absent or a number) gives the object with the tag of the header, its
\* quotes removed
PutReturnsTheTag ==
    (/\ Returned("put")
     /\ answers[1].err = NoError
     /\ answers[1].header.ETag # <<>>
     /\ answers[1].header.ContentLength \in {<<>>, Bytes("0")})
        => /\ result.err = NoError
           /\ result.resp # Nil
           /\ result.resp[1].ETag = WithoutQuotes(answers[1].header.ETag)
           /\ result.resp[1].Path = argument[1]

\* C27: PutCalendarObject sends opts.IfMatch in double quotes as If-Match and
\* opts.IfNoneMatch likewise as If-None-Match ("*" as it is), no conditional
\* header for an empty field or nil opts; it returns the ETag of the
\* response without the quotes around it; a 412 gives a precondition-failed
\* error and no object.
PutQuotesAndUnquotes ==
    /\ PutSendsTheTags
    /\ PutFailsOn412
    /\ PutReturnsTheTag

\* the components parts hold one of kind
Has(parts, kind) == \E k \in 1..Len(parts) : parts[k].kind = kind

HasText(parts, text) == \E k \in 1..Len(parts) : parts[k].text = text

\* C33: an event whose RRULE has a COUNT and no UNTIL that parses, or an
\* UNTIL that does not parse and none that does, is recurring with no
\* recurrence end, and the cutoff decision includes it, for every cutoff and
\* every modification time.
UnboundedRuleAlwaysIncluded ==
    \A r \in RRuleInputs :
        (/\ pc = "decided"
         /\ payload = r.data
         /\ ~Has(r.parts, "until")
         /\ Has(r.parts, "count") \/ HasText(r.parts, Bytes("UNTIL=someday"))) =>
            /\ extracted.ok
            /\ extracted.meta.recurring
            /\ IsZero(extracted.meta.recurrenceEnd)
            /\ returned = TRUE

\* an event of ten instances whose rule has the component DotlessUntil
\* after its COUNT, and no UNTIL, was given the recurrence end of that
\* component and left out under a cutoff in 2024
CountedRuleLeftOut ==
    /\ pc = "decided"
    /\ payload = RRuleEvent(<<[text |-> Bytes("COUNT=10"), kind |-> "count",
                               t |-> ZeroTime],
                              DotlessUntil>>)
    /\ argument[2] = Date(2024, 1, 15, 0, 0, 0, 0)
    /\ extracted.meta.recurrenceEnd = Date(2020, 1, 1, 0, 0, 0, 0)
    /\ returned = FALSE

\* UnboundedRuleAlwaysIncluded of the rules whose keys are ASCII
PlainUnboundedRuleAlwaysIncluded ==
    \A r \in RRuleInputs :
        (/\ pc = "decided"
         /\ payload = r.data
         /\ PlainKeys(r)
         /\ ~Has(r.parts, "until")
         /\ Has(r.parts, "count") \/ HasText(r.parts, Bytes("UNTIL=someday"))) =>
            /\ extracted.ok
            /\ extracted.meta.recurring
            /\ IsZero(extracted.meta.recurrenceEnd)
            /\ returned = TRUE

\* a daily event of ten instances from 2024 on, last modified in 2023, was
\* included under a cutoff in 2100
CountedRuleIncludedLongAfter ==
    /\ pc = "decided"
    /\ payload = RRuleEvent(<<[text |-> Bytes("FREQ=DAILY"), kind |-> "other",
                               t |-> ZeroTime],
                              [text |-> Bytes("COUNT=10"), kind |-> "count",
                               t |-> ZeroTime]>>)
    /\ argument[1] # Nil /\ argument[1][1].ModTime = ModBefore
    /\ argument[2] = Date(2100, 1, 1, 0, 0, 0, 0)
    /\ ~extracted.meta.recurrenceOpen
    /\ returned = TRUE

\* C34: the result of extractEventMetadata is that of the lines inside the
\* VEVENT block of the payload, whatever DTSTART, DTEND and RRULE lines stand
\* before and after the block, bare or inside a VTIMEZONE or a VTODO, and
\* however the letters of the block's markers are cased; a payload with no
\* VEVENT block yields no metadata.
OutsideLinesIgnored ==
    \A c \in OutsideInputs :
        (pc = "extracted" /\ payload = c.data) =>
            /\ extracted.ok = c.ok
            /\ extracted.meta = c.meta

\* an event between a VTIMEZONE with a DTSTART and a bounded RRULE and a VTODO
\* with a DTSTART and a DTEND, its markers in lower case, gave its own start
\* and end and is not recurring
EventReadBetweenOthers ==
    /\ pc = "extracted"
    /\ \E c \in OutsideInputs :
          /\ payload = c.data
          /\ HasPrefix(c.pre, Bytes("BEGIN:VTIMEZONE"))
          /\ HasPrefix(c.post, Bytes("BEGIN:VTODO"))
          /\ c.markers = <<Bytes("begin:vevent"), Bytes("end:vevent")>>
    /\ extracted.ok
    /\ extracted.meta.start = Date(2024, 1, 1, 10, 0, 0, 0)
    /\ extracted.meta.end = Date(2024, 1, 1, 11, 0, 0, 0)
    /\ ~extracted.meta.recurring

\* C35: a DTSTART, DTEND, UNTIL or COUNT value of no accepted format changes
\* nothing: the start, the end and the recurrence end are those of the values
\* that parse and zero otherwise, the rule is bounded by the UNTIL that parses
\* or the COUNT that is an integer, and the extraction succeeds exactly when
\* there is a rule or a start or an end that parses, as it does for the event
\* without the lines that do not parse.
BadValueIgnored ==
    \A c \in FormatInputs :
        (pc = "extracted" /\ payload = c.data) =>
            /\ extracted.ok = (c.rule.found \/ ~IsZero(c.start.t) \/ ~IsZero(c.end.t))
            /\ extracted.ok =>
                  /\ extracted.meta.start = c.start.t
                  /\ extracted.meta.end = c.end.t
                  /\ extracted.meta.recurring = c.rule.found
                  /\ extracted.meta.recurrenceEnd = c.rule.t
                  /\ extracted.meta.recurrenceOpen = (c.rule.found /\ ~c.rule.bounded)

\* an event whose only line of the three is a DTSTART with half a second
\* after its seconds, a value of no accepted format, gave that time as its
\* start
FractionalStartKept ==
    /\ pc = "extracted"
    /\ payload = LinesEvent(<<Bytes("DTSTART:20240101T100000.5Z"), <<>>, <<>>>>)
    /\ extracted.ok
    /\ extracted.meta.start = Date(2024, 1, 1, 10, 0, 0, 500000000)

\* the values of c have no fraction of a second
NoFraction(c) ==
    /\ c.start.line # Bytes("DTSTART:20240101T100000.5Z")
    /\ c.rule.line # Bytes("RRULE:FREQ=DAILY;UNTIL=20240301T000000,5")

\* BadValueIgnored of the events without a fraction of a second
BadValueIgnoredWithoutFraction ==
    \A c \in FormatInputs :
        (pc = "extracted" /\ payload = c.data /\ NoFraction(c)) =>
            /\ extracted.ok = (c.rule.found \/ ~IsZero(c.start.t) \/ ~IsZero(c.end.t))
            /\ extracted.ok =>
                  /\ extracted.meta.start = c.start.t
                  /\ extracted.meta.end = c.end.t
                  /\ extracted.meta.recurring = c.rule.found
                  /\ extracted.meta.recurrenceEnd = c.rule.t
                  /\ extracted.meta.recurrenceOpen = (c.rule.found /\ ~c.rule.bounded)

\* an event with a DTSTART and an UNTIL of no accepted format gave its end
\* and the bound of its COUNT, and no start and no recurrence end
BadStartAndUntilSkipped ==
    /\ pc = "extracted"
    /\ \E c \in FormatInputs :
          /\ payload = c.data
          /\ c.start.bad
          /\ c.rule.line = Bytes("RRULE:UNTIL=20240301T0000;COUNT=3")
    /\ extracted.ok
    /\ IsZero(extracted.meta.start)
    /\ extracted.meta.end = Date(2024, 1, 2, 0, 0, 0, 0)
    /\ extracted.meta.recurring
    /\ IsZero(extracted.meta.recurrenceEnd)
    /\ ~extracted.meta.recurrenceOpen

\* the encoded parameter filter enc mirrors pf
MirrorsParam(enc, pf) ==
    /\ enc.Name = pf.Name
    /\ (enc.IsNotDefined # Nil) = pf.IsNotDefined
    /\ (enc.TextMatch # Nil) = (pf.TextMatch # Nil)

\* the encoded property filter enc mirrors pf
MirrorsProp(enc, pf) ==
    /\ enc.Name = pf.Name
    /\ (enc.IsNotDefined # Nil) = pf.IsNotDefined
    /\ (enc.TimeRange # Nil) = (~IsZero(pf.Start) \/ ~IsZero(pf.End))
    /\ (enc.TextMatch # Nil) = (pf.TextMatch # Nil)
    /\ Len(enc.ParamFilter) = Len(pf.ParamFilter)
    /\ \A k \in 1..Len(pf.ParamFilter) : MirrorsParam(enc.ParamFilter[k], pf.ParamFilter[k])

\* the encoded component filter enc mirrors cf, node by node
RECURSIVE MirrorsComp(_, _)
MirrorsComp(enc, cf) ==
    /\ enc.Name = cf.Name
    /\ (enc.IsNotDefined # Nil) = cf.IsNotDefined
    /\ (enc.TimeRange # Nil) = (~IsZero(cf.Start) \/ ~IsZero(cf.End))
    /\ Len(enc.PropFilters) = Len(cf.Props)
    /\ \A k \in 1..Len(cf.Props) : MirrorsProp(enc.PropFilters[k], cf.Props[k])
    /\ Len(enc.CompFilters) = Len(cf.Comps)
    /\ \A k \in 1..Len(cf.Comps) : MirrorsComp(enc.CompFilters[k], cf.Comps[k])

\* C37: encodeCompFilter returns no error and a tree that mirrors the filter:
\* every node has the name of its source, the not-defined marker exactly when
\* IsNotDefined is set, a time range exactly when Start or End is not zero,
\* and as many property filters and child filters as its source, each
\* mirroring the one at its place.
EncodingMirrorsTheFilter ==
    pc = "encoded" =>
        /\ returned.err = NoError
        /\ MirrorsComp(returned.v, argument[1])

\* a calendar filter of two children was encoded: the first child has both
\* bounds and a child of its own that is not defined, the second has an end
\* alone, and both have a time range
TreeEncodedWithOpenRange ==
    /\ pc = "encoded"
    /\ Len(argument[1].Comps) = 2
    /\ Len(argument[1].Comps[1].Comps) = 1
    /\ IsZero(argument[1].Comps[2].Start) /\ ~IsZero(argument[1].Comps[2].End)
    /\ returned.err = NoError
    /\ returned.v.CompFilters[1].CompFilters[1].IsNotDefined # Nil
    /\ returned.v.CompFilters[1].TimeRange # Nil
    /\ returned.v.CompFilters[2].TimeRange # Nil
    /\ Len(returned.v.CompFilters[2].PropFilters) = 1

\* sameCollectionPath on the paths that were compared is reflexive and
\* symmetric, and two paths it holds of are the same as the same paths
SameIsEquivalence ==
    pc = "compared" =>
        LET a == argument[1]
            b == argument[2]
        IN  /\ a = b => returned
            /\ returned = sameCollectionPath(b, a)
            /\ returned => \A c \in PathInputs :
                               sameCollectionPath(b, c) => sameCollectionPath(a, c)

\* normalizeCollectionPath returns the empty path and "/" unchanged and any
\* other path without its trailing slashes, and what it returns it returns
\* unchanged
NormalizeIsIdempotent ==
    pc = "normalized" =>
        /\ returned = (IF argument[1] \in {"", "/"} THEN argument[1]
                       ELSE Stripped(argument[1]))
        /\ normalizeCollectionPath(returned) = returned

\* C38: sameCollectionPath is an equivalence relation on paths: reflexive,
\* symmetric and transitive; normalizeCollectionPath returns "" and "/"
\* unchanged, strips every trailing slash from any other path, and is
\* idempotent.
PathsCompareAsNormalized ==
    /\ SameIsEquivalence
    /\ NormalizeIsIdempotent

\* a path of three trailing slashes was normalized to the path without them,
\* which is the same collection path as the one with a single slash
ThreeSlashesStripped ==
    /\ pc = "normalized"
    /\ argument[1] = "/cal///"
    /\ returned = "/cal"
    /\ sameCollectionPath(returned, "/cal/")
    /\ sameCollectionPath("/cal/", argument[1])
    /\ sameCollectionPath(returned, argument[1])

====
